---- MODULE Spec2Model ----
(***************************************************************************)
(* B+ tree of bplus-tree/btree.go (the second, []byte-valued revision,     *)
(* lines 611-1279) as a state machine.  Nodes live in a heap indexed by    *)
(* node ids (Go pointers); 0 is the nil pointer.  Keys are byte strings    *)
(* (sequences of byte values) compared byte-lexicographically.  The        *)
(* iterator of main.go (lines 37-161) is the variable it: the cursor a     *)
(* client holds between two calls that change the tree.                    *)
(***************************************************************************)
EXTENDS Integers, Sequences, FiniteSets, TLC

VARIABLES order, root, heap, ref, panic, last, it

vars == <<order, root, heap, ref, panic, last, it>>

\* ------------------------------------------------------------------ bounds
\* Orders 1..MaxOrder are tried; keys are the first PoolSize strings of KeyPool.
MaxOrder == 2
PoolSize == 6

NIL == 0
None == "none"

\* Candidate keys, as in the randomized test's pool; the empty key included.
KeyPool ==
  << <<>>, <<1>>, <<2>>, <<1, 1>>, <<1, 2>>, <<2, 1>>, <<1, 1, 1>>, <<2, 2>> >>

Keys == {KeyPool[i] : i \in 1..PoolSize}

Values == {"v0", "v1"}

\* The values the model inserts under key k: both for the keys of at most one
\* byte, so that an update is observable, one for the longer keys.
ValuesFor(k) == IF Len(k) <= 1 THEN Values ELSE {"v0"}

\* ------------------------------------------------------------- byte strings
RECURSIVE Compare(_, _)
\* bytes.Compare: -1, 0 or 1 by byte-lexicographic order (a proper prefix is smaller)
Compare(a, b) ==
  IF a = <<>> THEN (IF b = <<>> THEN 0 ELSE -1)
  ELSE IF b = <<>> THEN 1
  ELSE IF a[1] < b[1] THEN -1
  ELSE IF a[1] > b[1] THEN 1
  ELSE Compare(Tail(a), Tail(b))

\* slip: an empty slice is equal to nothing
BytesEqualNonEmpty(a, b) == Len(a) > 0 /\ Compare(a, b) = 0

\* bytes.Equal
BytesEqual(a, b) == Compare(a, b) = 0

Less(a, b) == Compare(a, b) < 0

\* ------------------------------------------------------------ sequences
Min(S) == CHOOSE x \in S : \A y \in S : x <= y

Last(s) == s[Len(s)]

Front(s) == SubSeq(s, 1, Len(s) - 1)

\* append(s[:i], s[i+1:]...) with i counted from 1
RemoveAt(s, i) == SubSeq(s, 1, i - 1) \o SubSeq(s, i + 1, Len(s))

\* grow by one, shift right from i, store x at i (i counted from 1)
InsertAt(s, i, x) == SubSeq(s, 1, i - 1) \o <<x>> \o SubSeq(s, i, Len(s))

\* ------------------------------------------------------------------ nodes
EmptyNode == [key |-> <<>>, value |-> <<>>, children |-> <<>>, next |-> NIL, prev |-> NIL]

IsLeaf(n) == Len(n.children) = 0

\* a fresh pointer: the smallest id not in use
NewId(h) == Min({i \in 1..(Cardinality(DOMAIN h) + 1) : i \notin DOMAIN h})

\* slip: a node with exactly 2t keys counts as overflowed
checkMaxKeysInclusive(t, keysLen) == keysLen >= 2 * t

checkMaxKeys(t, keysLen) == keysLen > 2 * t

\* slip: a sibling holding exactly t keys counts as able to lend
checkMinKeysInclusive(t, keysLen) == keysLen >= t

checkMinKeys(t, keysLen) == keysLen > t

\* slip: the scan stops only at a key strictly above the one sought
findKeyIndexPastEqual(n, key) ==
  LET S == {i \in 1..Len(n.key) : Compare(key, n.key[i]) < 0}
  IN IF S = {} THEN Len(n.key) + 1 ELSE Min(S)

\* index (from 1) of the first key k with key <= k, else Len+1
findKeyIndexInNode(n, key) ==
  LET S == {i \in 1..Len(n.key) : Compare(key, n.key[i]) <= 0}
  IN IF S = {} THEN Len(n.key) + 1 ELSE Min(S)

\* slip: the error of a failed search is dropped and index 0 of the code is used
findEqualKeyIndexIgnoringError(n, key) ==
  LET S == {i \in 1..Len(n.key) : BytesEqual(n.key[i], key)}
  IN IF S = {} THEN (IF Len(n.key) > 0 THEN 1 ELSE 0) ELSE Min(S)

\* index (from 1) of the first key equal to key, 0 when there is none (the error)
findEqualKeyIndexInNode(n, key) ==
  LET S == {i \in 1..Len(n.key) : BytesEqual(n.key[i], key)}
  IN IF S = {} THEN 0 ELSE Min(S)

\* slip: the descent compares with <= and sends a key equal to a separator left
traverseIndexEqualGoesLeft(n, key) ==
  LET S == {i \in 1..Len(n.key) : Compare(key, n.key[i]) <= 0}
  IN IF S = {} THEN Len(n.key) + 1 ELSE Min(S)

\* position (from 1) in n.children of the child the descent follows
traverseIndex(n, key) ==
  LET S == {i \in 1..Len(n.key) : Compare(key, n.key[i]) < 0}
  IN IF S = {} THEN Len(n.key) + 1 ELSE Min(S)

\* slip: the child is never found
getChildIndexNeverFound(h, parent, child) == 0

\* index (from 1) of child in parent.children, 0 when absent (-1 in the code)
getChildIndexFromParentChildren(h, parent, child) ==
  IF parent = NIL \/ child = NIL THEN 0
  ELSE LET S == {i \in 1..Len(h[parent].children) : h[parent].children[i] = child}
       IN IF S = {} THEN 0 ELSE Min(S)

\* --------------------------------------------------- operation state
\* The operators below thread a record s = [root, heap, panic, log] through a
\* call: panic names the assertion or runtime fault that aborted it ("" when
\* none), log lists the structural steps the call took.
Panic(s, msg) == [s EXCEPT !.panic = msg]

Event(ev, a, b, sep) == [ev |-> ev, a |-> a, b |-> b, sep |-> sep]

Log(s, e) == [s EXCEPT !.log = Append(@, e)]

WithHeap(s, h) == [s EXCEPT !.heap = h]

RECURSIVE descend(_, _, _, _)
\* the loop `for curr != nil && !curr.IsLeaf()` of Insert, Get, Delete and Seek
descend(h, curr, key, path) ==
  IF curr = NIL \/ IsLeaf(h[curr])
  THEN [leaf |-> curr, path |-> path, panic |-> ""]
  ELSE IF Len(h[curr].children) # Len(h[curr].key) + 1
  THEN [leaf |-> curr, path |-> Append(path, curr), panic |-> "traverse: children/keys mismatch"]
  ELSE descend(h, h[curr].children[traverseIndex(h[curr], key)], key, Append(path, curr))

\* slip: the separator is stored but the new child link is not
insertKeyWithoutChild(n, key, childPtr, idx) ==
  [n EXCEPT !.key = InsertAt(n.key, idx, key)]

\* the node after insertKeyInNodeInPlace (idx counted from 1)
insertKeyInNodeInPlace(n, key, childPtr, idx) ==
  [n EXCEPT !.key = InsertAt(n.key, idx, key),
            !.children = InsertAt(n.children, idx + 1, childPtr)]

\* the node after insertKVInLeafInPlace (idx counted from 1)
insertKVInLeafInPlace(n, key, val, idx) ==
  [n EXCEPT !.key = InsertAt(n.key, idx, key),
            !.value = InsertAt(n.value, idx, val)]

\* slip: the left half is cut one key short
splitLeftLenShort(t) == t - 1

\* left half's key count after a split: left.key = left.key[:b.order]
splitLeftLen(t) == t

\* slip: the right leaf starts one pair late
leafRightFromLate(t) == t + 2

\* first key (from 1) of the right half of a leaf split: left.key[b.order+i]
leafRightFrom(t) == t + 1

\* slip: the right half starts at the separator
internalRightFromSeparator(t) == t + 1

\* first key (from 1) of the right half of an internal split: left.key[b.order+1+i]
internalRightFrom(t) == t + 2

\* slip: the recursion is handed the whole path again
pathAboveSame(path) == path

\* path[:len(path)-1], the path handed to the recursion on the parent
pathAbove(path) == Front(path)

\* slip: the tree keeps its old root after the root has split
rootAfterSplitKept(oldRoot, newRoot) == oldRoot

\* b.root = newRoot, once the node without a parent has split
rootAfterSplit(oldRoot, newRoot) == newRoot

\* slip: the first recorded ancestor (the root) is taken instead of the last
pathParentFirst(path) == IF Len(path) # 0 THEN path[1] ELSE NIL

\* the nearest recorded ancestor: path[len(path)-1], nil for an empty path
pathParent(path) == IF Len(path) # 0 THEN Last(path) ELSE NIL

\* slip: the separator is taken from the end of the left half
leafSplitSeparatorFromLeft(leftKeys, rightKeys) == leftKeys[Len(leftKeys)]

\* separatorKey := right.key[0] of a leaf split (copy-up)
leafSplitSeparator(leftKeys, rightKeys) == rightKeys[1]

RECURSIVE splitNode(_, _, _, _)
\* lines 1053-1071 and 1102-1122: hand separator and right half to the parent
promote(s, t, left, right, sep, path) ==
  LET parent == pathParent(path) IN
  IF parent = NIL
  THEN LET newRoot == NewId(s.heap)
           rn == [EmptyNode EXCEPT !.key = <<sep>>, !.children = <<left, right>>]
       IN Log([s EXCEPT !.heap = s.heap @@ (newRoot :> rn),
                        !.root = rootAfterSplit(s.root, newRoot)],
              Event("newRoot", <<sep>>, <<>>, sep))
  ELSE LET p == s.heap[parent]
           insertionIdx == findKeyIndexInNode(p, sep)
       IN IF IsLeaf(p)
          THEN Panic(s, "insertKeyInNodeInPlace called on leaf node")
          ELSE LET s1 == WithHeap(s, [s.heap EXCEPT ![parent] =
                              insertKeyInNodeInPlace(p, sep, right, insertionIdx)])
               IN IF checkMaxKeys(t, Len(s1.heap[parent].key))
                  THEN splitNode(s1, t, parent, pathAbove(path))
                  ELSE s1

splitNode(s, t, node, path) ==
  LET h == s.heap
      n == h[node]
  IN
  IF ~(Len(n.key) > 2 * t) THEN Panic(s, "splitNode: node is not overflowed")
  ELSE IF IsLeaf(n) THEN
    IF Len(n.key) # Len(n.value) THEN Panic(s, "leaf key/value mismatch before split")
    ELSE
    LET right == NewId(h)
        rn == [key |-> SubSeq(n.key, leafRightFrom(t), Len(n.key)),
               value |-> SubSeq(n.value, leafRightFrom(t), Len(n.value)),
               children |-> <<>>, next |-> n.next, prev |-> node]
        h1 == [(h @@ (right :> rn)) EXCEPT ![node].next = right]
        h2 == IF rn.next # NIL THEN [h1 EXCEPT ![rn.next].prev = right] ELSE h1
        h3 == [h2 EXCEPT ![node].key = SubSeq(n.key, 1, splitLeftLen(t)),
                         ![node].value = SubSeq(n.value, 1, splitLeftLen(t))]
    IN IF Len(rn.key) = 0 THEN Panic(WithHeap(s, h3), "index out of range")
       ELSE LET separatorKey == leafSplitSeparator(h3[node].key, rn.key)
            IN promote(Log(WithHeap(s, h3),
                           Event("splitLeaf", h3[node].key, rn.key, separatorKey)),
                       t, node, right, separatorKey, path)
  ELSE
    IF Len(n.children) # Len(n.key) + 1 THEN Panic(s, "internal children/key mismatch before split")
    ELSE
    LET right == NewId(h)
        rn == [EmptyNode EXCEPT
                 !.key = SubSeq(n.key, internalRightFrom(t), Len(n.key)),
                 !.children = SubSeq(n.children, internalRightFrom(t), Len(n.children))]
        sep == n.key[t + 1]
        h1 == [(h @@ (right :> rn)) EXCEPT
                 ![node].key = SubSeq(n.key, 1, splitLeftLen(t)),
                 ![node].children = SubSeq(n.children, 1, splitLeftLen(t) + 1)]
    IN promote(Log(WithHeap(s, h1), Event("splitInternal", h1[node].key, rn.key, sep)),
               t, node, right, sep, path)

\* ----------------------------------------------------------- rebalancing
\* slip: the surviving left leaf keeps its link to the leaf merged into it
mergedLeafNextKept(sn, dn) == dn.next

\* line 860: dst.next = src.next when src is merged into its left sibling dst
mergedLeafNext(sn, dn) == sn.next

\* slip: an internal merge drops the separator as a leaf merge does
withSeparatorDropped(keys, separatorKey) == keys

\* lines 853 and 877-878: the left keys with the parent separator pulled down
withSeparator(keys, separatorKey) == Append(keys, separatorKey)

\* src is the underflowed node, dst the sibling that survives
mergeNodes(s, src, dst, mergeWithLeft, separatorKey) ==
  LET h == s.heap IN
  IF src = NIL \/ dst = NIL THEN Panic(s, "nil pointer dereference")
  ELSE
  LET sn == h[src]
      dn == h[dst]
      isInternalNode == ~IsLeaf(sn) \/ ~IsLeaf(dn)
  IN
  IF IsLeaf(sn) # IsLeaf(dn) THEN Panic(s, "mergeNodes called with mismatched node types")
  ELSE IF mergeWithLeft THEN
    IF isInternalNode
    THEN LET h1 == [h EXCEPT ![dst].key = withSeparator(dn.key, separatorKey) \o sn.key,
                             ![dst].children = dn.children \o sn.children]
         IN Log(WithHeap(s, h1), Event("mergeInternalLeft", h1[dst].key, <<>>, separatorKey))
    ELSE LET h1 == [h EXCEPT ![dst].key = dn.key \o sn.key,
                             ![dst].value = dn.value \o sn.value,
                             ![dst].next = mergedLeafNext(sn, dn)]
             h2 == IF h1[dst].next # NIL THEN [h1 EXCEPT ![h1[dst].next].prev = dst] ELSE h1
         IN Log(WithHeap(s, h2), Event("mergeLeafLeft", h2[dst].key, <<>>, separatorKey))
  ELSE
    IF isInternalNode
    THEN LET h1 == [h EXCEPT ![dst].key = withSeparator(sn.key, separatorKey) \o dn.key,
                             ![dst].children = sn.children \o dn.children]
         IN Log(WithHeap(s, h1), Event("mergeInternalRight", h1[dst].key, <<>>, separatorKey))
    ELSE LET h1 == [h EXCEPT ![dst].key = sn.key \o dn.key,
                             ![dst].value = sn.value \o dn.value]
             h2 == IF sn.prev # NIL THEN [h1 EXCEPT ![sn.prev].next = dst] ELSE h1
             h3 == [h2 EXCEPT ![dst].prev = sn.prev]
         IN Log(WithHeap(s, h3), Event("mergeLeafRight", h3[dst].key, <<>>, separatorKey))

\* slip: the lender's first key is written in both directions
borrowedSeparatorFromLender(dstKeys, srcKeys, borrowFromLeft) == srcKeys[1]

\* lines 921 and 937: the separator a leaf borrow writes into the parent, from
\* the two leaves' keys after the move
borrowedSeparator(dstKeys, srcKeys, borrowFromLeft) ==
  IF borrowFromLeft THEN dstKeys[1] ELSE srcKeys[1]

\* slip: the borrowed element always goes to the back
withBorrowedAtBack(seq, x, borrowFromLeft) == Append(seq, x)

\* lines 917-918 and 933-934: the borrowed element is prepended when it comes
\* from the left sibling and appended when it comes from the right one
withBorrowed(seq, x, borrowFromLeft) ==
  IF borrowFromLeft THEN <<x>> \o seq ELSE Append(seq, x)

\* src lends one pair to the underflowed dst; dstIdx is dst's position (from 1)
\* in parent.children
borrowKeyFromLeafNode(s, src, dst, borrowFromLeft, parent, dstIdx) ==
  LET h == s.heap
      sn == h[src]
      dn == h[dst]
  IN
  IF ~(IsLeaf(sn) /\ IsLeaf(dn)) THEN Panic(s, "borrowKeyFromLeafNode called with non-leaf nodes")
  ELSE IF ~(Len(sn.key) > 0) THEN Panic(s, "cannot borrow from empty source node")
  ELSE IF Len(sn.value) # Len(sn.key) THEN Panic(s, "index out of range")
  ELSE IF borrowFromLeft THEN
    LET h1 == [h EXCEPT ![src].key = Front(sn.key),
                        ![src].value = Front(sn.value),
                        ![dst].key = withBorrowed(dn.key, Last(sn.key), TRUE),
                        ![dst].value = withBorrowed(dn.value, Last(sn.value), TRUE)]
    IN IF dstIdx - 1 < 1 \/ dstIdx - 1 > Len(h[parent].key)
       THEN Panic(WithHeap(s, h1), "index out of range")
       ELSE LET sep == borrowedSeparator(h1[dst].key, h1[src].key, TRUE)
                h2 == [h1 EXCEPT ![parent].key[dstIdx - 1] = sep]
            IN Log(WithHeap(s, h2), Event("borrowLeafLeft", h2[dst].key, h2[src].key, sep))
  ELSE
    LET h1 == [h EXCEPT ![src].key = Tail(sn.key),
                        ![src].value = Tail(sn.value),
                        ![dst].key = withBorrowed(dn.key, sn.key[1], FALSE),
                        ![dst].value = withBorrowed(dn.value, sn.value[1], FALSE)]
    IN IF dstIdx > Len(h[parent].key) \/ Len(h1[src].key) = 0
       THEN Panic(WithHeap(s, h1), "index out of range")
       ELSE LET sep == borrowedSeparator(h1[dst].key, h1[src].key, FALSE)
                h2 == [h1 EXCEPT ![parent].key[dstIdx] = sep]
            IN Log(WithHeap(s, h2), Event("borrowLeafRight", h2[dst].key, h2[src].key, sep))

\* slip: the lender's first key is promoted in both directions
keyToBePromotedFirst(srcKeys, borrowFromLeft) == srcKeys[1]

\* lines 962 and 978: the lender's key next to the node goes up to the parent
keyToBePromoted(srcKeys, borrowFromLeft) ==
  IF borrowFromLeft THEN Last(srcKeys) ELSE srcKeys[1]

\* rotation through the parent between internal siblings
borrowKeyFromINode(s, src, dst, parent, borrowFromLeft) ==
  LET h == s.heap
      sn == h[src]
      dn == h[dst]
      idx == getChildIndexFromParentChildren(h, parent, dst)
  IN
  IF ~(~IsLeaf(sn) /\ ~IsLeaf(dn)) THEN Panic(s, "borrowKeyFromINode called with leaf nodes")
  ELSE IF ~(Len(sn.key) > 0) THEN Panic(s, "cannot borrow from empty source node")
  ELSE IF ~(idx >= 1) THEN Panic(s, "dst node not found in parent's children")
  ELSE IF borrowFromLeft THEN
    IF idx - 1 < 1 \/ idx - 1 > Len(h[parent].key) THEN Panic(s, "index out of range")
    ELSE
    LET separatorKey == h[parent].key[idx - 1]
        promoted == keyToBePromoted(sn.key, TRUE)
        h1 == [h EXCEPT ![dst].key = <<separatorKey>> \o dn.key,
                        ![dst].children = <<Last(sn.children)>> \o dn.children,
                        ![src].key = Front(sn.key),
                        ![src].children = Front(sn.children),
                        ![parent].key[idx - 1] = promoted]
    IN Log(WithHeap(s, h1),
           Event("borrowInternalLeft", h1[dst].key, h1[src].key, promoted))
  ELSE
    IF idx > Len(h[parent].key) THEN Panic(s, "index out of range")
    ELSE
    LET separatorKey == h[parent].key[idx]
        promoted == keyToBePromoted(sn.key, FALSE)
        h1 == [h EXCEPT ![dst].key = Append(dn.key, separatorKey),
                        ![dst].children = Append(dn.children, sn.children[1]),
                        ![src].key = Tail(sn.key),
                        ![src].children = Tail(sn.children),
                        ![parent].key[idx] = promoted]
    IN Log(WithHeap(s, h1),
           Event("borrowInternalRight", h1[dst].key, h1[src].key, promoted))

\* lines 818-827: rewrite the separators of a parent of leaves from its children
repairSeparators(h, parent) ==
  LET p == h[parent] IN
  IF Len(p.children) > 0 /\ IsLeaf(h[p.children[1]])
  THEN [h EXCEPT ![parent].key =
          [i \in 1..Len(p.key) |->
             IF i + 1 <= Len(p.children) /\ Len(h[p.children[i + 1]].key) > 0
             THEN h[p.children[i + 1]].key[1]
             ELSE p.key[i]]]
  ELSE h

\* slip: the left sibling is merged with only where there is no right one
mergesWithLeftLast(leftSibling, rightSibling) == rightSibling = NIL

\* line 804: if leftSibling != nil, the merge is with the left sibling
mergesWithLeft(leftSibling, rightSibling) == leftSibling # NIL

\* lines 803-827: merge node (at idx, from 1, in parent.children) into a sibling
mergeWithSibling(s, node, parent, idx, leftSibling, rightSibling) ==
  LET h == s.heap
      sepIdx == IF mergesWithLeft(leftSibling, rightSibling) THEN idx - 1 ELSE idx
  IN
  IF sepIdx < 1 \/ sepIdx > Len(h[parent].key) THEN Panic(s, "index out of range")
  ELSE
  LET separatorKey == h[parent].key[sepIdx]
      s1 == IF mergesWithLeft(leftSibling, rightSibling)
            THEN LET m == mergeNodes(s, node, leftSibling, TRUE, separatorKey)
                 IN IF m.panic # "" THEN m
                    ELSE WithHeap(m, [m.heap EXCEPT ![parent].key = RemoveAt(@, sepIdx)])
            ELSE mergeNodes(WithHeap(s, [h EXCEPT ![parent].key = RemoveAt(@, sepIdx)]),
                            node, rightSibling, FALSE, separatorKey)
  IN IF s1.panic # "" THEN s1
     ELSE LET h2 == [s1.heap EXCEPT ![parent].children = RemoveAt(@, idx)]
          IN WithHeap(s1, repairSeparators(h2, parent))

\* slip: the emptied root stays installed
rootAfterCollapseKept(s, node) == s.root

\* line 767: b.root = node.children[0]
rootAfterCollapse(s, node) == s.heap[node].children[1]

\* slip: the root is never collapsed
rootNeverCollapses(s, node) == FALSE

\* line 763: the root is replaced by its only child
rootCollapses(s, node) ==
  node = s.root /\ Len(s.heap[node].key) = 0 /\ ~IsLeaf(s.heap[node])

\* lines 772-828: the one borrow or merge that handleNodeUnderflow performs for
\* node under parent
rebalance(s, t, node, parent) ==
  LET h == s.heap
      currChildNodeIndex == getChildIndexFromParentChildren(h, parent, node) IN
  IF ~(currChildNodeIndex >= 1) THEN Panic(s, "node not found in parent's children")
  ELSE
  LET leftSibling == IF currChildNodeIndex > 1
                     THEN h[parent].children[currChildNodeIndex - 1] ELSE NIL
      rightSibling == IF currChildNodeIndex < Len(h[parent].children)
                      THEN h[parent].children[currChildNodeIndex + 1] ELSE NIL
  IN IF leftSibling # NIL /\ checkMinKeys(t, Len(h[leftSibling].key))
     THEN IF ~IsLeaf(h[node])
          THEN borrowKeyFromINode(s, leftSibling, node, parent, TRUE)
          ELSE borrowKeyFromLeafNode(s, leftSibling, node, TRUE, parent, currChildNodeIndex)
     ELSE IF rightSibling # NIL /\ checkMinKeys(t, Len(h[rightSibling].key))
     THEN IF ~IsLeaf(h[node])
          THEN borrowKeyFromINode(s, rightSibling, node, parent, FALSE)
          ELSE borrowKeyFromLeafNode(s, rightSibling, node, FALSE, parent, currChildNodeIndex)
     ELSE mergeWithSibling(s, node, parent, currChildNodeIndex, leftSibling, rightSibling)

\* slip: the parent is handled only below t keys
parentUnderflowsBelowT(t, keysLen) == keysLen < t

\* line 830: if !b.checkMinKeys(len(parent.key)), the parent is handled next
parentUnderflows(t, keysLen) == ~checkMinKeys(t, keysLen)

RECURSIVE handleNodeUnderflow(_, _, _, _)
handleNodeUnderflow(s, t, node, path) ==
  LET h == s.heap
      parent == pathParent(path)
  IN
  IF node = NIL THEN Panic(s, "handleNodeUnderflow called with nil node")
  ELSE IF parent = NIL THEN
    IF rootCollapses(s, node)
    THEN IF Len(h[node].children) # 1
         THEN Panic(s, "collapsing root with 0 keys should have exactly 1 child")
         ELSE Log([s EXCEPT !.root = rootAfterCollapse(s, node)],
                  Event("collapse", h[h[node].children[1]].key, <<>>, <<>>))
    ELSE s
  ELSE
  LET s1 == rebalance(s, t, node, parent)
  IN IF s1.panic # "" THEN s1
     ELSE IF parentUnderflows(t, Len(s1.heap[parent].key))
     THEN handleNodeUnderflow(s1, t, parent, pathAbove(path))
     ELSE s1

\* ------------------------------------------------------ public operations
ErrNil == "nil"
ErrNotFound == "NotFound"

Ok(s) == [root |-> s.root, heap |-> s.heap, panic |-> s.panic, log |-> s.log,
          err |-> ErrNil, val |-> None]

\* slip: the failing call lets go of the tree
failForgetsTree(s, e) == [Ok(s) EXCEPT !.err = e, !.root = NIL, !.heap = <<>>]

Fail(s, e) == [Ok(s) EXCEPT !.err = e]

\* slip: a key already stored is never recognised
keyStoredAtNever(n, idx, key) == FALSE

\* line 673: kvInsertionIndex < len(curr.key) && bytes.Equal(curr.key[kvInsertionIndex], key)
keyStoredAt(n, idx, key) == Len(n.key) >= idx /\ BytesEqual(n.key[idx], key)

\* slip: the stored value is left as it was
overwriteValueSkipped(n, idx, value) == n

\* line 675: curr.value[kvInsertionIndex] = value
overwriteValue(n, idx, value) == [n EXCEPT !.value[idx] = value]

Insert(s, t, key, value) ==
  IF s.root = NIL
  THEN LET id == NewId(s.heap)
       IN Ok([s EXCEPT !.heap = s.heap @@ (id :> [EmptyNode EXCEPT !.key = <<key>>,
                                                                  !.value = <<value>>]),
                       !.root = id])
  ELSE
  LET d == descend(s.heap, s.root, key, <<>>) IN
  IF d.panic # "" THEN Ok(Panic(s, d.panic))
  ELSE
  LET curr == d.leaf
      n == s.heap[curr]
      kvInsertionIndex == findKeyIndexInNode(n, key)
  IN
  IF keyStoredAt(n, kvInsertionIndex, key)
  THEN IF kvInsertionIndex > Len(n.value) THEN Ok(Panic(s, "index out of range"))
       ELSE Ok(Log(WithHeap(s, [s.heap EXCEPT ![curr] =
                                  overwriteValue(n, kvInsertionIndex, value)]),
                   Event("overwrite", <<>>, <<>>, <<>>)))
  ELSE IF Len(n.key) # Len(n.value) THEN Ok(Panic(s, "leaf node key/value length mismatch"))
  ELSE
  LET s1 == WithHeap(s, [s.heap EXCEPT ![curr] =
                           insertKVInLeafInPlace(n, key, value, kvInsertionIndex)])
  IN IF checkMaxKeys(t, Len(s1.heap[curr].key))
     THEN Ok(splitNode(s1, t, curr, d.path))
     ELSE Ok(s1)

Get(s, key) ==
  IF s.root = NIL THEN Fail(s, ErrNotFound)
  ELSE
  LET d == descend(s.heap, s.root, key, <<>>) IN
  IF d.panic # "" THEN Ok(Panic(s, d.panic))
  ELSE
  LET n == s.heap[d.leaf]
      idx == findEqualKeyIndexInNode(n, key)
  IN IF idx = 0 THEN Fail(s, ErrNotFound)
     ELSE IF idx > Len(n.value) THEN Ok(Panic(s, "index out of range"))
     ELSE [Ok(s) EXCEPT !.val = n.value[idx]]

\* slip: the first pair of the leaf is removed whatever the key's index
removeKVFirst(n, deleteIdx) ==
  [n EXCEPT !.key = RemoveAt(n.key, 1), !.value = RemoveAt(n.value, 1)]

\* lines 731-732: cut the pair at deleteIdx out of curr.key and curr.value
removeKV(n, deleteIdx) ==
  [n EXCEPT !.key = RemoveAt(n.key, deleteIdx), !.value = RemoveAt(n.value, deleteIdx)]

Delete(s, t, key) ==
  IF s.root = NIL THEN Fail(s, ErrNotFound)
  ELSE
  LET d == descend(s.heap, s.root, key, <<>>) IN
  IF d.panic # "" THEN Ok(Panic(s, d.panic))
  ELSE
  LET curr == d.leaf
      n == s.heap[curr]
      deleteIdx == findEqualKeyIndexInNode(n, key)
  IN
  IF deleteIdx = 0 THEN Fail(s, ErrNotFound)
  ELSE IF deleteIdx > Len(n.value) THEN Ok(Panic(s, "slice bounds out of range"))
  ELSE
  LET s1 == WithHeap(s, [s.heap EXCEPT ![curr] = removeKV(n, deleteIdx)])
  IN IF ~checkMinKeys(t, Len(s1.heap[curr].key))
     THEN Ok(handleNodeUnderflow(s1, t, curr, d.path))
     ELSE Ok(s1)

\* ------------------------------------------------------------ integer keys
RECURSIVE bigEndianBytes(_, _)
\* the n low bytes of the two's complement of i, most significant first
\* (uint64(i) wraps a negative i around, which the floor division does here)
bigEndianBytes(i, n) ==
  IF n = 0 THEN <<>> ELSE Append(bigEndianBytes(i \div 256, n - 1), i % 256)

convertIntToByte(i) == bigEndianBytes(i, 8)

RECURSIVE signedBigEndian(_, _)
\* int(binary.BigEndian.Uint64(b)): the bytes read as a number, the top bit of
\* the first byte being the sign; acc is the value of the bytes read so far
signedBigEndian(b, acc) ==
  IF b = <<>> THEN acc ELSE signedBigEndian(Tail(b), acc * 256 + b[1])

leftPad(b) == [i \in 1..8 |-> IF i <= 8 - Len(b) THEN 0 ELSE b[i - (8 - Len(b))]]

convertBytetoInt(b) ==
  LET w == IF Len(b) < 8 THEN leftPad(b) ELSE SubSeq(b, 1, 8)
  IN signedBigEndian(Tail(w), IF w[1] >= 128 THEN w[1] - 256 ELSE w[1])

\* ---------------------------------------------------------------- iterator
ErrInvalidArgument == "InvalidArgument"

\* what Key returns for an invalid iterator (nil) and what Value returns ("")
NoKey == None
NoValue == ""

\* &iterator{node, idx}; idx is counted from 1 here, from 0 in the code
Iterator(node, idx) == [kind |-> "iter", node |-> node, idx |-> idx]

\* the nil *iterator that SeekFirst and SeekLast return for a tree without root
NilIterator == [kind |-> "nil", node |-> NIL, idx |-> 0]

\* no iterator is held
NoIterator == [kind |-> "none", node |-> NIL, idx |-> 0]

\* a method called on the nil *iterator reads i.node through a nil pointer
Dereferences(i) == i.kind = "iter"

Valid(h, i) == i.node # NIL /\ i.idx >= 1 /\ i.idx <= Len(h[i.node].key)

Key(h, i) == IF ~Valid(h, i) THEN NoKey ELSE h[i.node].key[i.idx]

Value(h, i) == IF ~Valid(h, i) THEN NoValue ELSE h[i.node].value[i.idx]

\* slip: the scan also passes over a key equal to the one sought
seekIndexPastEqual(n, key) ==
  LET S == {i \in 1..Len(n.key) : ~(Compare(n.key[i], key) <= 0)}
  IN IF S = {} THEN Len(n.key) + 1 ELSE Min(S)

\* lines 66-70: idx (from 1) after `for idx < len(n.key) && Compare(n.key[idx], key) < 0`
seekIndex(n, key) ==
  LET S == {i \in 1..Len(n.key) : ~(Compare(n.key[i], key) < 0)}
  IN IF S = {} THEN Len(n.key) + 1 ELSE Min(S)

\* slip: no key counts as empty
emptyKeyNever(key) == FALSE

\* line 51: len(key) == 0
emptyKey(key) == Len(key) = 0

Seek(s, key) ==
  IF emptyKey(key) THEN [err |-> ErrInvalidArgument, it |-> NilIterator, panic |-> ""]
  ELSE IF s.root = NIL THEN [err |-> ErrNotFound, it |-> NilIterator, panic |-> ""]
  ELSE
  LET d == descend(s.heap, s.root, key, <<>>) IN
  IF d.panic # "" THEN [err |-> ErrNil, it |-> NilIterator, panic |-> d.panic]
  ELSE
  LET n == s.heap[d.leaf]
      idx == seekIndex(n, key)
  IN IF idx > Len(n.key)
     THEN [err |-> ErrNil, it |-> Iterator(n.next, 1), panic |-> ""]
     ELSE [err |-> ErrNil, it |-> Iterator(d.leaf, idx), panic |-> ""]

RECURSIVE firstLeaf(_, _)
\* the loop `for n != nil && !n.IsLeaf() { n = n.children[0] }`
firstLeaf(h, n) ==
  IF n = NIL \/ IsLeaf(h[n]) THEN n ELSE firstLeaf(h, h[n].children[1])

\* slip: the descent of SeekLast follows the first child like SeekFirst's
lastLeafOfFirstChild(h, n) == firstLeaf(h, n)

RECURSIVE lastLeaf(_, _)
\* the loop `for n != nil && !n.IsLeaf() { n = n.children[len(n.children)-1] }`
lastLeaf(h, n) ==
  IF n = NIL \/ IsLeaf(h[n]) THEN n ELSE lastLeaf(h, Last(h[n].children))

SeekFirst(s) ==
  IF s.root = NIL THEN NilIterator
  ELSE Iterator(firstLeaf(s.heap, s.root), 1)

SeekLast(s) ==
  IF s.root = NIL THEN NilIterator
  ELSE LET n == lastLeaf(s.heap, s.root)
       IN Iterator(n, Len(s.heap[n].key))

\* slip: at the end of a leaf the iterator gives up instead of following next
nextStopsAtLeafEnd(h, i) ==
  IF ~Valid(h, i) THEN i
  ELSE IF i.idx + 1 <= Len(h[i.node].key) THEN [i EXCEPT !.idx = i.idx + 1]
  ELSE [i EXCEPT !.node = NIL]

\* iterator.Next
next(h, i) ==
  IF ~Valid(h, i) THEN i
  ELSE IF i.idx + 1 <= Len(h[i.node].key) THEN [i EXCEPT !.idx = i.idx + 1]
  ELSE IF h[i.node].next # NIL THEN [i EXCEPT !.node = h[i.node].next, !.idx = 1]
  ELSE [i EXCEPT !.node = NIL]

\* iterator.Prev
prev(h, i) ==
  IF ~Valid(h, i) THEN i
  ELSE IF i.idx - 1 >= 1 THEN [i EXCEPT !.idx = i.idx - 1]
  ELSE IF h[i.node].prev # NIL
  THEN [i EXCEPT !.node = h[i.node].prev, !.idx = Len(h[h[i.node].prev].key)]
  ELSE [i EXCEPT !.node = NIL]

\* ------------------------------------------------------ pointer identity
\* Node ids stand for Go pointers, of which only equality is observable, and a
\* node nothing refers to is garbage.  After each call the nodes still
\* referenced are renumbered in preorder from the root (then any others that
\* sibling links still reach), so that equal trees are equal states.
RECURSIVE preorder(_, _)
RECURSIVE preorderAll(_, _)
preorder(h, n) == <<n>> \o preorderAll(h, h[n].children)

preorderAll(h, cs) ==
  IF cs = <<>> THEN <<>> ELSE preorder(h, cs[1]) \o preorderAll(h, Tail(cs))

Range(s) == {s[i] : i \in 1..Len(s)}

Refs(n) == ({n.next, n.prev} \cup Range(n.children)) \ {NIL}

RECURSIVE Closure(_, _)
Closure(h, S) ==
  LET N == S \cup UNION {Refs(h[n]) : n \in S}
  IN IF N = S THEN S ELSE Closure(h, N)

RECURSIVE SortedSeq(_)
SortedSeq(S) == IF S = {} THEN <<>> ELSE <<Min(S)>> \o SortedSeq(S \ {Min(S)})

Canon(rt, h) ==
  IF rt = NIL THEN [root |-> NIL, heap |-> <<>>]
  ELSE
  LET tree == preorder(h, rt)
      ord == tree \o SortedSeq(Closure(h, Range(tree)) \ Range(tree))
      ren(p) == IF p = NIL THEN NIL ELSE CHOOSE i \in 1..Len(ord) : ord[i] = p
  IN [root |-> ren(rt),
      heap |-> [i \in 1..Len(ord) |->
                  LET n == h[ord[i]]
                  IN [n EXCEPT !.children = [j \in 1..Len(n.children) |-> ren(n.children[j])],
                               !.next = ren(n.next),
                               !.prev = ren(n.prev)]]]

\* ----------------------------------------------------------------- actions
Cur == [root |-> root, heap |-> heap, panic |-> "", log |-> <<>>]

Commit(op, r) ==
  LET c == Canon(r.root, r.heap) IN
  /\ root' = c.root
  /\ heap' = c.heap
  /\ panic' = r.panic
  /\ last' = [op |-> op, err |-> r.err, val |-> r.val, log |-> r.log]

Init ==
  /\ order \in 1..MaxOrder
  /\ root = NIL
  /\ heap = <<>>
  /\ ref = [k \in Keys |-> None]
  /\ panic = ""
  /\ last = [op |-> "new", err |-> ErrNil, val |-> None, log |-> <<>>]
  /\ it = NoIterator

\* the orders New is called with: the positive ones and as many that are not
OrderArgs == (0 - MaxOrder)..MaxOrder

\* New(order): common.Assert(order > 0, ...), then &BTree{order: order}
New(o) ==
  [order |-> o, root |-> NIL,
   panic |-> IF o > 0 THEN "" ELSE "assertion failed: order must be positive"]

\* the state after New has been called with any of the orders
InitNew ==
  \E o \in OrderArgs :
    /\ order = New(o).order
    /\ root = New(o).root
    /\ heap = <<>>
    /\ ref = [k \in Keys |-> None]
    /\ panic = New(o).panic
    /\ last = [op |-> "new", err |-> ErrNil, val |-> None, log |-> <<>>]
    /\ it = NoIterator

\* The tree is changed and queried only while no iterator is held: the
\* clients open an iterator, step it and drop it between such calls.
InsertAct(k, v) ==
  /\ panic = "" /\ it = NoIterator
  /\ Commit("insert", Insert(Cur, order, k, v))
  /\ ref' = [ref EXCEPT ![k] = v]
  /\ UNCHANGED <<order, it>>

DeleteAct(k) ==
  /\ panic = "" /\ it = NoIterator
  /\ LET r == Delete(Cur, order, k)
     IN /\ Commit("delete", r)
        /\ ref' = IF r.err = ErrNil THEN [ref EXCEPT ![k] = None] ELSE ref
  /\ UNCHANGED <<order, it>>

GetAct(k) ==
  /\ panic = "" /\ it = NoIterator
  /\ Commit("get", Get(Cur, k))
  /\ UNCHANGED <<order, ref, it>>

Next ==
  \/ \E k \in Keys : \E v \in ValuesFor(k) : InsertAct(k, v)
  \/ \E k \in Keys : DeleteAct(k)
  \/ \E k \in Keys : GetAct(k)

Spec == Init /\ [][Next]_vars

SpecNew == InitNew /\ [][Next]_vars

\* ------------------------------------------------------ integer-key calls
\* integers given to InsertInt, GetInt and DeleteInt: of both signs and on
\* both sides of a byte boundary
IntPool == {-256, -1, 0, 1, 255, 256}

InsertIntAct(i) ==
  /\ panic = "" /\ it = NoIterator
  /\ Commit("insert", Insert(Cur, order, convertIntToByte(i), "v0"))
  /\ UNCHANGED <<order, ref, it>>

GetIntAct(i) ==
  /\ panic = "" /\ it = NoIterator
  /\ Commit("get", Get(Cur, convertIntToByte(i)))
  /\ UNCHANGED <<order, ref, it>>

DeleteIntAct(i) ==
  /\ panic = "" /\ it = NoIterator
  /\ Commit("delete", Delete(Cur, order, convertIntToByte(i)))
  /\ UNCHANGED <<order, ref, it>>

NextInt ==
  \/ \E i \in IntPool : InsertIntAct(i)
  \/ \E i \in IntPool : GetIntAct(i)
  \/ \E i \in IntPool : DeleteIntAct(i)

SpecInt == Init /\ [][NextInt]_vars

\* ---------------------------------------------------------- cursor actions
Called(op, err) == [op |-> op, err |-> err, val |-> None, log |-> <<>>]

\* it, err := b.Seek(k); a call that fails leaves no iterator to use
SeekAct(k) ==
  /\ panic = "" /\ it = NoIterator
  /\ LET r == Seek(Cur, k)
     IN /\ it' = IF r.err = ErrNil /\ r.panic = "" THEN r.it ELSE NoIterator
        /\ panic' = r.panic
        /\ last' = Called("seek", r.err)
  /\ UNCHANGED <<order, root, heap, ref>>

SeekFirstAct ==
  /\ panic = "" /\ it = NoIterator
  /\ it' = SeekFirst(Cur)
  /\ last' = Called("seekFirst", ErrNil)
  /\ UNCHANGED <<order, root, heap, ref, panic>>

SeekLastAct ==
  /\ panic = "" /\ it = NoIterator
  /\ it' = SeekLast(Cur)
  /\ last' = Called("seekLast", ErrNil)
  /\ UNCHANGED <<order, root, heap, ref, panic>>

\* a step of the held iterator; on the nil *iterator the call crashes
StepAct(op, to) ==
  /\ panic = "" /\ it # NoIterator
  /\ IF Dereferences(it)
     THEN it' = to /\ panic' = panic
     ELSE it' = it /\ panic' = "nil pointer dereference"
  /\ last' = Called(op, ErrNil)
  /\ UNCHANGED <<order, root, heap, ref>>

NextAct == StepAct("next", next(heap, it))

PrevAct == StepAct("prev", prev(heap, it))

\* the iterator goes out of scope
ReleaseAct ==
  /\ panic = "" /\ it # NoIterator
  /\ it' = NoIterator
  /\ last' = Called("release", ErrNil)
  /\ UNCHANGED <<order, root, heap, ref, panic>>

CursorNext ==
  \/ \E k \in Keys : SeekAct(k)
  \/ SeekFirstAct
  \/ SeekLastAct
  \/ NextAct
  \/ PrevAct
  \/ ReleaseAct

SpecCursor == Init /\ [][Next \/ CursorNext]_vars

\* sequences of insert, get, delete and seek calls
SeekNext ==
  \/ \E k \in Keys : SeekAct(k)
  \/ ReleaseAct

SpecSeek == Init /\ [][Next \/ SeekNext]_vars

\* ------------------------------------------------------- tree vocabulary
TreeNodes == IF root = NIL THEN {} ELSE Range(preorder(heap, root))

NonRoot == TreeNodes \ {root}

Internals == {n \in TreeNodes : ~IsLeaf(heap[n])}

Leaves == {n \in TreeNodes : IsLeaf(heap[n])}

KeyCount(n) == Len(heap[n].key)

RECURSIVE SubtreeKeys(_)
\* the keys stored in the leaves below n
SubtreeKeys(n) ==
  IF IsLeaf(heap[n]) THEN Range(heap[n].key)
  ELSE UNION {SubtreeKeys(heap[n].children[i]) : i \in 1..Len(heap[n].children)}

RECURSIVE LeafDepths(_)
\* the depths, counted from n, at which leaves lie below n
LeafDepths(n) ==
  IF IsLeaf(heap[n]) THEN {0}
  ELSE {d + 1 : d \in UNION {LeafDepths(heap[n].children[i]) :
                               i \in 1..Len(heap[n].children)}}

Stored(k) == root # NIL /\ k \in SubtreeKeys(root)

LogHas(evs) == \E i \in 1..Len(last.log) : last.log[i].ev \in evs

LeafBorrows == {"borrowLeafLeft", "borrowLeafRight"}

InternalSteps ==
  {"splitInternal", "mergeInternalLeft", "mergeInternalRight",
   "borrowInternalLeft", "borrowInternalRight"}

\* ------------------------------------------------------------------ claims

\* C1: after any sequence of inserts and deletes, get(k) returns the value of
\* the most recent insert of k if k was inserted and not deleted since, and
\* NotFound for every other key: the tree agrees with the reference map.
GetAgreesWithReferenceMap ==
  \A k \in Keys :
    LET r == Get(Cur, k)
    IN IF ref[k] = None THEN r.err = ErrNotFound
       ELSE r.err = ErrNil /\ r.val = ref[k]

\* a multi-level tree after a rebalancing delete, holding an updated key and
\* lacking another
GetAgreesWitness ==
  /\ last.op = "delete" /\ last.err = ErrNil /\ Len(last.log) > 0
  /\ root # NIL /\ ~IsLeaf(heap[root])
  /\ \E k \in Keys : ref[k] = "v1" /\ Get(Cur, k).val = "v1"
  /\ \E k \in Keys : ref[k] = None /\ Get(Cur, k).err = ErrNotFound

\* C2: delete(k) fails with NotFound when k is not stored (or there is no
\* root) and then leaves root and every node unchanged; delete of a stored key
\* succeeds.
DeleteOfAbsentKeyFailsAndKeepsTree ==
  \A k \in Keys :
    LET r == Delete(Cur, order, k)
    IN IF Stored(k) THEN r.err = ErrNil
       ELSE r.err = ErrNotFound /\ r.root = root /\ r.heap = heap

\* a delete has just failed on a tree of more than one level
DeleteFailedWitness ==
  /\ last.op = "delete" /\ last.err = ErrNotFound
  /\ root # NIL /\ ~IsLeaf(heap[root])

\* C3 as stated: every non-root node holds strictly more than t keys.
NonRootNodesHoldMoreThanTKeys ==
  \A n \in NonRoot : KeyCount(n) > order

\* C3 as amended: every non-root node holds at least t keys, and after a leaf
\* borrow the borrowing and the lending leaf each hold at least t keys.
NonRootNodesAndBorrowersHoldTKeys ==
  /\ \A n \in NonRoot : KeyCount(n) >= order
  /\ \A i \in 1..Len(last.log) :
       last.log[i].ev \in LeafBorrows =>
         Len(last.log[i].a) >= order /\ Len(last.log[i].b) >= order

\* a delete has just borrowed between leaves and a leaf is left with exactly t keys
LeafBorrowWitness ==
  /\ last.op = "delete" /\ LogHas(LeafBorrows)
  /\ \E n \in NonRoot : IsLeaf(heap[n]) /\ KeyCount(n) = order

\* C4: every node, the root included, holds at most 2t keys.
AllNodesHoldAtMost2tKeys ==
  \A n \in TreeNodes : KeyCount(n) <= 2 * order

\* C5: every non-root node holds at least t keys, and no leaf other than the
\* root is left empty.
NonRootNodesHoldAtLeastTKeys ==
  \A n \in NonRoot :
    KeyCount(n) >= order /\ (IsLeaf(heap[n]) => KeyCount(n) > 0)

\* a delete has just rebalanced and some non-root node holds exactly t keys
MinimalNodeWitness ==
  /\ last.op = "delete" /\ Len(last.log) > 0
  /\ \E n \in NonRoot : KeyCount(n) = order

\* C6 as stated: a root, when there is one, holds at least one key.
RootHoldsAKey ==
  root # NIL => KeyCount(root) >= 1

\* C6 as amended: a root holds at least one key unless it is a leaf; an
\* internal root with zero keys never remains installed.
InternalRootHoldsAKey ==
  root # NIL /\ ~IsLeaf(heap[root]) => KeyCount(root) >= 1

\* a delete has just collapsed the root onto an internal node
RootCollapseWitness ==
  /\ last.op = "delete" /\ LogHas({"collapse"})
  /\ root # NIL /\ ~IsLeaf(heap[root])

\* C7: every internal node with k keys has exactly k+1 children.
ChildrenAreKeysPlusOne ==
  \A n \in Internals : Len(heap[n].children) = KeyCount(n) + 1

\* an internal node has just been split, merged or lent to
InternalStepWitness ==
  /\ LogHas(InternalSteps)
  /\ \E n \in Internals : KeyCount(n) >= 2

\* C8: all leaves are at the same depth from the root.
LeavesAtSameDepth ==
  root # NIL => Cardinality(LeafDepths(root)) = 1

\* a three-level tree after a rebalancing delete
ThreeLevelWitness ==
  /\ last.op = "delete" /\ Len(last.log) > 0
  /\ root # NIL /\ LeafDepths(root) = {2}

\* C9: for every separator s_i of every internal node, the keys below child i
\* are strictly less than s_i and the keys below child i+1 are at least s_i.
SeparatorLaw ==
  \A n \in Internals : \A i \in 1..KeyCount(n) :
    /\ i <= Len(heap[n].children) =>
         \A k \in SubtreeKeys(heap[n].children[i]) : Less(k, heap[n].key[i])
    /\ i + 1 <= Len(heap[n].children) =>
         \A k \in SubtreeKeys(heap[n].children[i + 1]) : ~Less(k, heap[n].key[i])

\* a delete has just borrowed between leaves below a root with two separators
SeparatorLawWitness ==
  /\ last.op = "delete" /\ LogHas(LeafBorrows)
  /\ \E n \in Internals : KeyCount(n) >= 2

\* C10 as stated: every separator equals the minimum key stored in the
\* subtree immediately to its right.
SeparatorsEqualRightMinimum ==
  \A n \in Internals : \A i \in 1..KeyCount(n) :
    i + 1 <= Len(heap[n].children) =>
      /\ heap[n].key[i] \in SubtreeKeys(heap[n].children[i + 1])
      /\ \A k \in SubtreeKeys(heap[n].children[i + 1]) : ~Less(k, heap[n].key[i])

SeparatorsAtMostRightMinimum ==
  \A n \in Internals : \A i \in 1..KeyCount(n) :
    i + 1 <= Len(heap[n].children) =>
      \A k \in SubtreeKeys(heap[n].children[i + 1]) : ~Less(k, heap[n].key[i])

\* C10 as amended: every separator is at most the minimum key of the subtree
\* to its right; an insert keeps the separators equal to those minima when
\* they were equal before it, while a delete may leave a separator smaller.
InsertKeepsSeparatorsAtRightMinimum ==
  /\ []SeparatorsAtMostRightMinimum
  /\ [][(last'.op = "insert" /\ SeparatorsEqualRightMinimum)
          => SeparatorsEqualRightMinimum']_vars

\* an insert has just split a node and every separator is its right minimum
SeparatorMinimumWitness ==
  /\ last.op = "insert" /\ LogHas({"splitLeaf"})
  /\ Internals # {} /\ SeparatorsEqualRightMinimum

\* the leaves below the root, from left to right
LeafSeq ==
  IF root = NIL THEN <<>>
  ELSE SelectSeq(preorder(heap, root), LAMBDA n : IsLeaf(heap[n]))

RECURSIVE Flatten(_)
Flatten(ss) == IF ss = <<>> THEN <<>> ELSE ss[1] \o Flatten(Tail(ss))

\* the keys of the leaves, leaf after leaf from left to right
LeafKeys == Flatten([i \in 1..Len(LeafSeq) |-> heap[LeafSeq[i]].key])

\* the values of the leaves, in the same order
LeafValues == Flatten([i \in 1..Len(LeafSeq) |-> heap[LeafSeq[i]].value])

StrictlyIncreasing(ks) == \A i \in 1..(Len(ks) - 1) : Less(ks[i], ks[i + 1])

\* C11: the sibling links of the leaves form one doubly linked list: next from
\* the leftmost leaf visits every leaf below the root once, in left-to-right
\* order and with strictly increasing keys, prev from the rightmost leaf visits
\* them in reverse, next and prev are mutual inverses, and no link leads to a
\* node that is no longer below the root.
LeafLinksFormOneList ==
  root # NIL =>
    /\ heap[LeafSeq[1]].prev = NIL
    /\ heap[LeafSeq[Len(LeafSeq)]].next = NIL
    /\ \A i \in 1..(Len(LeafSeq) - 1) :
         /\ heap[LeafSeq[i]].next = LeafSeq[i + 1]
         /\ heap[LeafSeq[i + 1]].prev = LeafSeq[i]
    /\ \A n \in Internals : heap[n].next = NIL /\ heap[n].prev = NIL
    /\ StrictlyIncreasing(LeafKeys)
    /\ DOMAIN heap = TreeNodes

\* a delete has just merged a leaf into a sibling and three leaves or more remain
LeafMergeWitness ==
  /\ last.op = "delete" /\ LogHas({"mergeLeafLeft", "mergeLeafRight"})
  /\ Len(LeafSeq) >= 3

\* the places (leaf, index) at which a leaf below the root stores a key
Slots == UNION {{<<n, i>> : i \in 1..KeyCount(n)} : n \in Leaves}

\* C12: no key is stored twice: neither at two indices of one leaf nor in two
\* leaves.
NoKeyStoredTwice ==
  \A p, q \in Slots :
    p # q => ~BytesEqual(heap[p[1]].key[p[2]], heap[q[1]].key[q[2]])

\* an insert of a key already stored has just been made into a tree of several
\* leaves, one of them full
RepeatedInsertWitness ==
  /\ last.op = "insert" /\ LogHas({"overwrite"})
  /\ Len(LeafSeq) >= 2
  /\ \E n \in Leaves : KeyCount(n) = 2 * order

\* node n of heap h2 is node n of heap h1 but for the value stored with key k,
\* which is v
SameButValue(h1, h2, n, k, v) ==
  /\ h2[n].key = h1[n].key
  /\ h2[n].children = h1[n].children
  /\ h2[n].next = h1[n].next
  /\ h2[n].prev = h1[n].prev
  /\ Len(h2[n].value) = Len(h1[n].value)
  /\ \A i \in 1..Len(h1[n].value) :
       h2[n].value[i] = IF i <= Len(h1[n].key) /\ BytesEqual(h1[n].key[i], k)
                        THEN v ELSE h1[n].value[i]

\* C13: insert(k, v) of a key already stored returns without error and only
\* overwrites k's value: root, node set, every node's keys, children and
\* sibling links and every other value are as before, get(k) then returns v,
\* and a second insert(k, v) changes nothing more.
InsertOfStoredKeyOnlyOverwrites ==
  \A k \in Keys : \A v \in Values :
    Stored(k) =>
      LET r == Insert(Cur, order, k, v)
          again == Insert([Cur EXCEPT !.root = r.root, !.heap = r.heap], order, k, v)
      IN /\ r.err = ErrNil /\ r.panic = ""
         /\ r.root = root
         /\ DOMAIN r.heap = DOMAIN heap
         /\ \A n \in DOMAIN heap : SameButValue(heap, r.heap, n, k, v)
         /\ Get(r, k).err = ErrNil /\ Get(r, k).val = v
         /\ again.root = r.root /\ again.heap = r.heap /\ again.err = ErrNil

\* an insert has just overwritten a value below an internal root, and the tree
\* holds both values
OverwriteWitness ==
  /\ last.op = "insert" /\ last.err = ErrNil /\ LogHas({"overwrite"})
  /\ root # NIL /\ ~IsLeaf(heap[root])
  /\ \E j, k \in Keys : ref[j] = "v0" /\ ref[k] = "v1" /\ Get(Cur, k).val = "v1"

\* the tree after insert(k, v) and then delete(k), both made on the current tree
InsertThenDelete(k, v) ==
  LET i == Insert(Cur, order, k, v)
  IN [ins |-> i,
      del |-> Delete([root |-> i.root, heap |-> i.heap, panic |-> i.panic, log |-> <<>>],
                     order, k)]

\* what get(j) answers on the tree of a call's result
Answer(r, j) == LET g == Get(r, j) IN <<g.err, g.val>>

\* C14: on a tree that does not store k, after insert(k, v) and then delete(k)
\* the delete has succeeded, get(k) is NotFound, and get(j) answers for every
\* other key j what it answered before the two calls.
InsertThenDeleteRestoresGets ==
  \A k \in Keys : \A v \in ValuesFor(k) :
    ~Stored(k) =>
      LET p == InsertThenDelete(k, v)
      IN /\ p.ins.err = ErrNil /\ p.ins.panic = ""
         /\ p.del.err = ErrNil /\ p.del.panic = ""
         /\ Get(p.del, k).err = ErrNotFound
         /\ \A j \in Keys \ {k} : Answer(p.del, j) = Answer(Cur, j)

\* a tree and an absent key whose insert splits a leaf and whose delete then
\* rebalances, leaving the leaves cut differently from before the two calls
InsertThenDeleteReshapesWitness ==
  /\ last.op \in {"insert", "delete"}
  /\ \E k \in Keys :
       /\ ~Stored(k)
       /\ LET p == InsertThenDelete(k, "v0")
              c == Canon(p.del.root, p.del.heap)
          IN /\ \E e \in Range(p.ins.log) : e.ev = "splitLeaf"
             /\ Len(p.del.log) > 0
             /\ p.del.err = ErrNil
             /\ c.heap # heap

\* ------------------------------------------------------- cursor vocabulary
StoredKeys == IF root = NIL THEN {} ELSE SubtreeKeys(root)

\* every string of the pool, the ones never inserted included
ProbeKeys == Range(KeyPool)

Smallest(S) == CHOOSE k \in S : \A j \in S : ~Less(j, k)

Largest(S) == CHOOSE k \in S : \A j \in S : ~Less(k, j)

\* the iterator i stands on key k and shows the value last inserted under k
StandsOn(i, k) ==
  Valid(heap, i) /\ Key(heap, i) = k /\ Value(heap, i) = ref[k]

\* C15: in a tree with a root, seek(k) of a non-empty k returns without error
\* an iterator on the smallest stored key >= k, showing that key's value, and
\* an invalid iterator when no stored key is >= k.
SeekFindsSmallestKeyNotBelow ==
  root # NIL =>
    \A k \in ProbeKeys \ {<<>>} :
      LET r == Seek(Cur, k)
          notBelow == {j \in StoredKeys : ~Less(j, k)}
      IN /\ r.err = ErrNil /\ r.panic = "" /\ Dereferences(r.it)
         /\ IF notBelow = {} THEN ~Valid(heap, r.it)
            ELSE StandsOn(r.it, Smallest(notBelow))

\* a seek has just returned an iterator on the first key of a later leaf, where
\* seek of an absent key that belongs at the end of the leaf before it arrives
SeekCrossesLeafWitness ==
  /\ last.op = "seek" /\ last.err = ErrNil /\ Valid(heap, it)
  /\ \E k \in Keys \ {<<>>} :
       /\ ~Stored(k) /\ Seek(Cur, k).it = it
       /\ descend(heap, root, k, <<>>).leaf # it.node

SeekRefusesByKeyAndRoot ==
  /\ Seek(Cur, <<>>).err = ErrInvalidArgument
  /\ root = NIL =>
       \A k \in ProbeKeys \ {<<>>} : Seek(Cur, k).err = ErrNotFound

\* C16: seek of the empty key fails with InvalidArgument in every state, the
\* test of the key coming before the test for a root; seek of a non-empty key
\* fails with NotFound when there is no root; a seek that fails leaves root
\* and nodes as they were and hands out no iterator.
SeekFailuresLeaveTree ==
  /\ []SeekRefusesByKeyAndRoot
  /\ [][(last'.op = "seek" /\ last'.err # ErrNil)
          => (root' = root /\ heap' = heap /\ it' = NoIterator)]_vars

\* a seek of the empty key has just been refused on a tree of several levels
SeekRefusedWitness ==
  /\ last.op = "seek" /\ last.err = ErrInvalidArgument
  /\ root # NIL /\ ~IsLeaf(heap[root])

\* C17: when the tree stores a key, seek_first returns a valid iterator on the
\* smallest stored key and seek_last one on the largest, each showing the
\* key's value; when the tree has no root both return the nil iterator.
SeekFirstAndLastFindTheEnds ==
  /\ root = NIL => SeekFirst(Cur) = NilIterator /\ SeekLast(Cur) = NilIterator
  /\ StoredKeys # {} =>
       /\ Dereferences(SeekFirst(Cur)) /\ StandsOn(SeekFirst(Cur), Smallest(StoredKeys))
       /\ Dereferences(SeekLast(Cur)) /\ StandsOn(SeekLast(Cur), Largest(StoredKeys))

\* seek_last has just returned an iterator on the second or later key of the
\* last leaf of a tree of three levels
SeekLastWitness ==
  /\ last.op = "seekLast" /\ Valid(heap, it) /\ it.idx >= 2
  /\ root # NIL /\ LeafDepths(root) = {2}
  /\ Key(heap, it) = Largest(StoredKeys)

RECURSIVE collect(_, _, _, _)
\* the loop `for ite.Valid() { ...ite.Key(), ite.Value()...; ite.Next() }` of
\* TestRange, and the same loop with Prev of TestReverseIteration
collect(h, i, forward, acc) ==
  IF ~Dereferences(i) THEN [acc EXCEPT !.panic = "nil pointer dereference"]
  ELSE IF ~Valid(h, i) THEN acc
  ELSE collect(h, IF forward THEN next(h, i) ELSE prev(h, i), forward,
               [acc EXCEPT !.keys = Append(@, Key(h, i)),
                           !.values = Append(@, Value(h, i))])

Collected == [keys |-> <<>>, values |-> <<>>, panic |-> ""]

Forward == collect(heap, SeekFirst(Cur), TRUE, Collected)

Backward == collect(heap, SeekLast(Cur), FALSE, Collected)

Reverse(ss) == [i \in 1..Len(ss) |-> ss[Len(ss) + 1 - i]]

\* C18: in every reachable tree, seek_first followed by next while the
\* iterator is valid yields the stored keys, each once, in strictly increasing
\* order and with their current values, and the iterator is invalid after as
\* many steps as there are stored keys.
ForwardIterationYieldsStoredKeys ==
  /\ Forward.panic = ""
  /\ Range(Forward.keys) = StoredKeys
  /\ Len(Forward.keys) = Cardinality(StoredKeys)
  /\ StrictlyIncreasing(Forward.keys)
  /\ \A i \in 1..Len(Forward.keys) : Forward.values[i] = ref[Forward.keys[i]]

\* C19: in every reachable tree, the keys given by seek_last and prev until
\* the iterator is invalid are the keys given by seek_first and next until it
\* is invalid, in reverse.
BackwardIsReverseOfForward ==
  /\ Forward.panic = "" /\ Backward.panic = ""
  /\ Backward.keys = Reverse(Forward.keys)

\* the stored keys above k and those below k
Above(k) == {j \in StoredKeys : Less(k, j)}

Below(k) == {j \in StoredKeys : Less(j, k)}

\* C20: an iterator held valid stands on a stored key of the unchanged tree,
\* and for an iterator valid on a stored key k next leaves it on the smallest
\* stored key above k and prev on the largest stored key below k, across leaf
\* boundaries (and invalid when there is no such key); prev after next, and
\* next after prev, lead back to the same place whenever the place between is
\* valid.
NextAndPrevStepToNeighbours ==
  /\ (it.kind = "iter" /\ Valid(heap, it)) => <<it.node, it.idx>> \in Slots
  /\ \A p \in Slots :
       LET i == Iterator(p[1], p[2])
           k == Key(heap, i)
           n == next(heap, i)
           b == prev(heap, i)
       IN /\ IF Above(k) = {} THEN ~Valid(heap, n) ELSE StandsOn(n, Smallest(Above(k)))
          /\ IF Below(k) = {} THEN ~Valid(heap, b) ELSE StandsOn(b, Largest(Below(k)))
          /\ Valid(heap, n) => prev(heap, n) = i
          /\ Valid(heap, b) => next(heap, b) = i

\* next has just moved the held iterator onto the first key of a later leaf
NextCrossedLeafWitness ==
  /\ last.op = "next" /\ Valid(heap, it)
  /\ it.idx = 1 /\ heap[it.node].prev # NIL
  /\ prev(heap, it).node = heap[it.node].prev

\* what the rules of a cursor say of iterator i: its methods return; it is
\* valid exactly when it refers to a leaf below the root at an index of one of
\* the leaf's keys; next at the largest stored key and prev at the smallest
\* make it invalid; when invalid, key and value return nothing and next and
\* prev leave it as it is
CursorRules(i) ==
  /\ Dereferences(i)
  /\ Valid(heap, i) <=> (i.node \in Leaves /\ i.idx \in 1..KeyCount(i.node))
  /\ (Valid(heap, i) /\ Key(heap, i) = Largest(StoredKeys)) => ~Valid(heap, next(heap, i))
  /\ (Valid(heap, i) /\ Key(heap, i) = Smallest(StoredKeys)) => ~Valid(heap, prev(heap, i))
  /\ ~Valid(heap, i) =>
       /\ Key(heap, i) = NoKey /\ Value(heap, i) = NoValue
       /\ next(heap, i) = i /\ prev(heap, i) = i

\* C21: every cursor handed out obeys the rules of a cursor: valid exactly on
\* a key of a leaf; invalid after next at the largest and after prev at the
\* smallest stored key; once invalid, key and value return nothing and next and
\* prev are no-ops, so that it stays invalid.
HeldCursorObeysRules ==
  it # NoIterator => CursorRules(it)

\* ------------------------------------------- the tree of a call's result
RECURSIVE keysBelow(_, _)
\* the keys stored in the leaves below node n of heap h
keysBelow(h, n) ==
  IF IsLeaf(h[n]) THEN Range(h[n].key)
  ELSE UNION {keysBelow(h, h[n].children[i]) : i \in 1..Len(h[n].children)}

RECURSIVE depthsBelow(_, _)
\* the depths, counted from n, of the leaves below node n of heap h
depthsBelow(h, n) ==
  IF IsLeaf(h[n]) THEN {0}
  ELSE {d + 1 : d \in UNION {depthsBelow(h, h[n].children[i]) :
                                i \in 1..Len(h[n].children)}}

leavesOf(h, rt) ==
  IF rt = NIL THEN <<>> ELSE SelectSeq(preorder(h, rt), LAMBDA n : IsLeaf(h[n]))

\* the structural rules that hold of every reachable tree, said of the tree
\* with root rt in heap h: non-root nodes hold t keys or more, leaves as many
\* values as keys, internal nodes a key at least and one child more than keys,
\* the separators part the keys below them, the leaves are equally deep and
\* chained in order by next and prev, and their keys strictly increase
WellFormed(t, rt, h) ==
  rt # NIL =>
    LET N == Range(preorder(h, rt))
        L == leavesOf(h, rt)
    IN /\ \A n \in N \ {rt} : Len(h[n].key) >= t
       /\ \A n \in N : IsLeaf(h[n]) => Len(h[n].value) = Len(h[n].key)
       /\ \A n \in N : ~IsLeaf(h[n]) =>
            /\ Len(h[n].key) >= 1
            /\ Len(h[n].children) = Len(h[n].key) + 1
            /\ \A i \in 1..Len(h[n].key) :
                 /\ \A k \in keysBelow(h, h[n].children[i]) : Less(k, h[n].key[i])
                 /\ \A k \in keysBelow(h, h[n].children[i + 1]) : ~Less(k, h[n].key[i])
       /\ Cardinality(depthsBelow(h, rt)) = 1
       /\ h[L[1]].prev = NIL /\ h[L[Len(L)]].next = NIL
       /\ \A i \in 1..(Len(L) - 1) : h[L[i]].next = L[i + 1] /\ h[L[i + 1]].prev = L[i]
       /\ StrictlyIncreasing(Flatten([i \in 1..Len(L) |-> h[L[i]].key]))

\* no node of the tree holds more than 2t keys
KeysWithin2t(t, rt, h) ==
  rt # NIL => \A n \in Range(preorder(h, rt)) : Len(h[n].key) <= 2 * t

\* C22: in every state insert of the empty key succeeds; afterwards get of the
\* empty key returns the inserted value, seek_first stands on the empty key
\* with that value (it is ordered before every other key), and the structural
\* rules hold of the tree (the bound of 2t keys if it held before).
InsertAcceptsEmptyKey ==
  \A v \in Values :
    LET r == Insert(Cur, order, <<>>, v)
        f == SeekFirst(r)
    IN /\ r.err = ErrNil /\ r.panic = ""
       /\ Get(r, <<>>).err = ErrNil /\ Get(r, <<>>).val = v
       /\ Dereferences(f) /\ Valid(r.heap, f)
       /\ Key(r.heap, f) = <<>> /\ Value(r.heap, f) = v
       /\ \A k \in keysBelow(r.heap, r.root) \ {<<>>} : Less(<<>>, k)
       /\ WellFormed(order, r.root, r.heap)
       /\ KeysWithin2t(order, root, heap) => KeysWithin2t(order, r.root, r.heap)

\* a tree without the empty key in which its insert splits the first leaf and
\* the internal node above it
EmptyKeySplitsWitness ==
  /\ ~Stored(<<>>)
  /\ LET r == Insert(Cur, order, <<>>, "v1")
     IN /\ \E e \in Range(r.log) : e.ev = "splitLeaf"
        /\ \E e \in Range(r.log) : e.ev = "splitInternal"
        /\ Key(r.heap, SeekFirst(r)) = <<>>

\* C23 as stated: get of the empty key returns NotFound in every state.
GetOfEmptyKeyIsNotFound ==
  Get(Cur, <<>>).err = ErrNotFound

\* C23 as amended: get of the empty key returns NotFound exactly when the
\* empty key is not stored, as on a tree without root; when it is stored, get
\* returns the value last inserted under it.
GetOfEmptyKeyFollowsStore ==
  LET r == Get(Cur, <<>>)
  IN /\ r.panic = ""
     /\ IF ref[<<>>] = None THEN r.err = ErrNotFound
        ELSE r.err = ErrNil /\ r.val = ref[<<>>]
     /\ root = NIL => r.err = ErrNotFound

\* a get has just returned the value that only the empty key holds, on a tree
\* of several leaves
GetOfEmptyKeyWitness ==
  /\ last.op = "get" /\ last.err = ErrNil /\ last.val = "v1"
  /\ ref[<<>>] = "v1" /\ \A k \in Keys \ {<<>>} : ref[k] # "v1"
  /\ Len(LeafSeq) >= 2

\* C24: new(order) with order <= 0 fails with InvalidArgument, returned to the
\* caller, and yields no tree; with order >= 1 it returns a tree of that order
\* without root, on which get and delete return NotFound.
NewChecksOrder ==
  last.op = "new" =>
    IF order <= 0
    THEN panic = "" /\ last.err = ErrInvalidArgument
    ELSE /\ panic = "" /\ last.err = ErrNil /\ root = NIL
         /\ \A k \in Keys : /\ Get(Cur, k).err = ErrNotFound
                             /\ Delete(Cur, order, k).err = ErrNotFound

ReadOps == {"get", "seek", "seekFirst", "seekLast", "next", "prev"}

GetKeepsTree ==
  \A k \in Keys : Get(Cur, k).root = root /\ Get(Cur, k).heap = heap

IntKeysAscend(ks) ==
  \A i \in 1..(Len(ks) - 1) : convertBytetoInt(ks[i]) < convertBytetoInt(ks[i + 1])

\* C26: the encoding of integer keys keeps their order: of two integers the
\* smaller has the byte-wise smaller key, decoding a key gives back its
\* integer, and the keys of a forward iteration decode to ascending integers.
IntEncodingKeepsOrder ==
  /\ \A a \in IntPool : convertBytetoInt(convertIntToByte(a)) = a
  /\ \A a, b \in IntPool : a < b => Less(convertIntToByte(a), convertIntToByte(b))
  /\ root # NIL => IntKeysAscend(Forward.keys)

\* how many events of the kinds evs a call has logged
Count(log, evs) == Cardinality({i \in 1..Len(log) : log[i].ev \in evs})

LeafRebalances == LeafBorrows \cup {"mergeLeafLeft", "mergeLeafRight"}

\* the descent for key k visits one node per level, from the root down
DescentIsOnePerLevel(k) ==
  LET d == descend(heap, root, k, <<>>)
  IN /\ d.panic = "" /\ IsLeaf(heap[d.leaf])
     /\ LeafDepths(root) = {Len(d.path)}
     /\ Cardinality(Range(d.path)) = Len(d.path)
     /\ \A i \in 1..Len(d.path) :
          /\ (i = 1) => d.path[i] = root
          /\ (i > 1) => d.path[i] \in Range(heap[d.path[i - 1]].children)
          /\ (i = Len(d.path)) => d.leaf \in Range(heap[d.path[i]].children)

\* C27: insert, get, delete and seek return for every key (none ends in a
\* crash): the descent visits one node per level; an insert splits the leaf at
\* most once and then each node of the recorded path at most once, installing
\* a new root only after all of them; a delete rebalances the leaf at most
\* once, each non-root node of the path at most once and collapses the root at
\* most once.
CallsTakeOneStepPerLevel ==
  root # NIL =>
    \A k \in Keys :
      LET p == Len(descend(heap, root, k, <<>>).path)
          i == Insert(Cur, order, k, "v0")
          d == Delete(Cur, order, k)
      IN /\ DescentIsOnePerLevel(k)
         /\ Get(Cur, k).panic = "" /\ Seek(Cur, k).panic = ""
         /\ i.panic = "" /\ d.panic = ""
         /\ Count(i.log, {"splitLeaf"}) <= 1
         /\ Count(i.log, {"splitInternal"}) <= p
         /\ Count(i.log, {"splitInternal"}) > 0 => Count(i.log, {"splitLeaf"}) = 1
         /\ Count(i.log, {"newRoot"}) <= 1
         /\ Count(i.log, {"newRoot"}) = 1 =>
              Count(i.log, {"splitLeaf"}) = 1 /\ Count(i.log, {"splitInternal"}) = p
         /\ Count(d.log, LeafRebalances) <= 1
         /\ Count(d.log, InternalSteps) <= (IF p > 0 THEN p - 1 ELSE 0)
         /\ Count(d.log, {"collapse"}) <= 1

\* an insert has just split a leaf and the internal node above it and has
\* installed a new root over the two halves
SplitToTheRootWitness ==
  /\ last.op = "insert"
  /\ Count(last.log, {"splitLeaf"}) = 1
  /\ Count(last.log, {"splitInternal"}) = 1
  /\ Count(last.log, {"newRoot"}) = 1
  /\ LeafDepths(root) = {2}

\* the splitLeaf events of a call's log
LeafSplits(log) == {i \in 1..Len(log) : log[i].ev = "splitLeaf"}

\* the leaf that Insert(k) descends to splits, and its halves are as claimed
LeafSplitsInHalves(k, v) ==
  LET leaf == descend(heap, root, k, <<>>).leaf
      n == heap[leaf]
      full == insertKVInLeafInPlace(n, k, v, findKeyIndexInNode(n, k))
      r == Insert(Cur, order, k, v)
      left == r.heap[leaf]
      right == r.heap[left.next]
  IN /\ left.next \notin DOMAIN heap
     /\ left.key = SubSeq(full.key, 1, order)
     /\ left.value = SubSeq(full.value, 1, order)
     /\ right.key = SubSeq(full.key, order + 1, Len(full.key))
     /\ right.value = SubSeq(full.value, order + 1, Len(full.value))
     /\ Len(right.key) = order + 1 /\ Len(right.value) = order + 1
     /\ right.prev = leaf /\ right.next = n.next
     /\ n.next # NIL => r.heap[n.next].prev = left.next
     /\ \A i \in LeafSplits(r.log) :
          /\ r.log[i].sep = right.key[1]
          /\ \E m \in Range(preorder(r.heap, r.root)) :
               ~IsLeaf(r.heap[m]) /\ r.log[i].sep \in Range(r.heap[m].key)

\* C28: an insert splits a leaf exactly when it adds a new key and the leaf
\* then holds more than 2t keys; the leaf keeps the first t pairs, a new leaf
\* linked right after it takes the other t+1 pairs, and the separator given to
\* the parent is the new leaf's first key, which the new leaf keeps.
LeafSplitCopiesUp ==
  root # NIL =>
    \A k \in Keys :
      LET n == heap[descend(heap, root, k, <<>>).leaf]
          r == Insert(Cur, order, k, "v0")
      IN /\ Cardinality(LeafSplits(r.log)) =
              (IF ~Stored(k) /\ Len(n.key) + 1 > 2 * order THEN 1 ELSE 0)
         /\ LeafSplits(r.log) # {} => LeafSplitsInHalves(k, "v0")

\* an insert has just split a leaf that has a right neighbour
LeafSplitWitness ==
  /\ last.op = "insert"
  /\ \E i \in LeafSplits(last.log) :
       \E l \in Leaves :
         /\ heap[l].key = last.log[i].a
         /\ heap[l].next # NIL
         /\ heap[heap[l].next].key = last.log[i].b
         /\ heap[heap[l].next].next # NIL

\* node m of the descent path was split by the insert that produced r
WasSplit(m, r) ==
  Len(heap[m].key) >= 2 * order /\ Len(r.heap[m].key) < Len(heap[m].key)

\* the halves of path node m after the insert that produced r: m itself and
\* the new internal node x; full and fullc are the keys and children m held
\* when it was split (its old ones and the separator and child handed up)
InternalSplitsInHalves(m, x, r) ==
  LET pre == heap[m]
      left == r.heap[m]
      right == r.heap[x]
  IN \E sep \in Keys, idx \in 1..(Len(pre.key) + 1),
        c \in DOMAIN r.heap \ DOMAIN heap :
       LET full == InsertAt(pre.key, idx, sep)
           fullc == InsertAt(pre.children, idx + 1, c)
       IN /\ Len(full) > 2 * order
          /\ left.key = SubSeq(full, 1, order)
          /\ left.children = SubSeq(fullc, 1, order + 1)
          /\ right.key = SubSeq(full, order + 2, Len(full))
          /\ right.children = SubSeq(fullc, order + 2, Len(fullc))
          /\ Len(left.children) = Len(left.key) + 1
          /\ Len(right.children) = Len(right.key) + 1
          /\ full[order + 1] \notin Range(left.key) \cup Range(right.key)
          /\ \E i \in 1..Len(r.log) :
               r.log[i] = Event("splitInternal", left.key, right.key, full[order + 1])
          /\ \E p \in Range(preorder(r.heap, r.root)) \ {m, x} :
               /\ ~IsLeaf(r.heap[p])
               /\ full[order + 1] \in Range(r.heap[p].key)

\* C29: an internal split moves the key at index t up, so that it is in
\* neither half; the node keeps keys [0,t) and children [0,t+1), the new
\* right node takes every key and child after them, and both halves have one
\* child more than keys, whether the node held 2t+1 or 2t+2 keys.
InternalSplitMovesUp ==
  root # NIL =>
    \A k \in Keys :
      LET path == descend(heap, root, k, <<>>).path
          r == Insert(Cur, order, k, "v0")
          split == {i \in 1..Len(path) : WasSplit(path[i], r)}
      IN /\ Count(r.log, {"splitInternal"}) = Cardinality(split)
         /\ \A i \in split :
              \E x \in DOMAIN r.heap \ DOMAIN heap :
                ~IsLeaf(r.heap[x]) /\ InternalSplitsInHalves(path[i], x, r)

\* an insert has just split an internal node that held 2t+2 keys
InternalSplitWitness ==
  /\ last.op = "insert"
  /\ \E i \in 1..Len(last.log) :
       /\ last.log[i].ev = "splitInternal"
       /\ Len(last.log[i].a) = order
       /\ Len(last.log[i].b) = order + 1

\* the height of the tree: the number of levels, none without a root and one
\* for a leaf root
HeightOf(rt, h) ==
  IF rt = NIL THEN 0
  ELSE 1 + CHOOSE d \in depthsBelow(h, rt) : \A e \in depthsBelow(h, rt) : e <= d

Logged(log, ev) == \E i \in 1..Len(log) : log[i].ev = ev

\* the root is a new node with one key over two children
RootIsFreshSplit(rt, h) ==
  rt # NIL /\ Len(h[rt].key) = 1 /\ Len(h[rt].children) = 2

\* the step of one call, given whether an insert is to raise the height
HeightStep(raises) ==
  LET a == HeightOf(root, heap)
      b == HeightOf(root', heap')
  IN /\ last'.op = "insert" =>
          /\ b = (IF raises THEN a + 1 ELSE a)
          /\ Logged(last'.log, "newRoot") => RootIsFreshSplit(root', heap')
     /\ last'.op = "delete" =>
          b = (IF Logged(last'.log, "collapse") THEN a - 1 ELSE a)
     /\ last'.op \notin {"insert", "delete"} => b = a

\* C30, as stated: an insert raises the height by exactly one if and only if
\* the root splits and a new root with one key and two children is installed,
\* a delete lowers it by exactly one if and only if the root collapses, and
\* no other call changes it.
HeightChangesOnlyAtRootSplitOrCollapse ==
  [][HeightStep(Logged(last'.log, "newRoot"))]_vars

\* C30, amended: as above, but an insert raises the height by one also when
\* the tree has no root, where it installs a leaf root without any split.
HeightChangesAtRootSplitFirstInsertOrCollapse ==
  [][HeightStep(Logged(last'.log, "newRoot") \/ root = NIL)]_vars

\* an insert has just split a leaf root: the tree has grown to two levels
RootSplitRaisedHeightWitness ==
  /\ last.op = "insert"
  /\ Logged(last.log, "newRoot")
  /\ ~Logged(last.log, "splitInternal")
  /\ RootIsFreshSplit(root, heap)
  /\ HeightOf(root, heap) = 2

\* C31: a delete that leaves the internal root without keys leaves it with
\* exactly one child and installs that child as the root before it returns; a
\* delete that leaves a leaf root without keys keeps that empty leaf as the
\* root, so a tree that has a root never returns to having none.
EmptiedRootCollapsesOrStays ==
  root # NIL =>
    \A k \in Keys :
      LET d == Delete(Cur, order, k)
          old == d.heap[root]
      IN /\ d.panic = "" /\ d.root # NIL
         /\ IsLeaf(heap[root]) => d.root = root /\ IsLeaf(d.heap[d.root])
         /\ IsLeaf(heap[root]) /\ heap[root].key = <<k>> =>
              d.err = ErrNil /\ d.heap[d.root].key = <<>> /\ d.heap[d.root].value = <<>>
         /\ ~IsLeaf(heap[root]) =>
              IF Len(old.key) = 0
              THEN /\ old.children = <<d.root>>
                   /\ d.root \in DOMAIN heap
                   /\ Count(d.log, {"collapse"}) = 1
              ELSE d.root = root /\ Count(d.log, {"collapse"}) = 0

\* a delete has just emptied the internal root and made its only child, a
\* leaf, the root
RootCollapsedOntoLeafWitness ==
  /\ last.op = "delete" /\ Logged(last.log, "collapse")
  /\ root # NIL /\ IsLeaf(heap[root]) /\ Len(heap[root].key) > 0

\* position (from 1) of node n among the children of node p
ChildPos(p, n) == CHOOSE i \in 1..Len(heap[p].children) : heap[p].children[i] = n

\* the siblings of n under p, NIL where there is none
LeftOf(p, n) == IF ChildPos(p, n) > 1 THEN heap[p].children[ChildPos(p, n) - 1] ELSE NIL

RightOf(p, n) ==
  IF ChildPos(p, n) < Len(heap[p].children)
  THEN heap[p].children[ChildPos(p, n) + 1] ELSE NIL

\* the one action the fixed order picks for node n under parent p
PickedAction(p, n) ==
  LET l == LeftOf(p, n)
      r == RightOf(p, n)
      leaf == IsLeaf(heap[n])
  IN IF l # NIL /\ Len(heap[l].key) > order
     THEN (IF leaf THEN "borrowLeafLeft" ELSE "borrowInternalLeft")
     ELSE IF r # NIL /\ Len(heap[r].key) > order
     THEN (IF leaf THEN "borrowLeafRight" ELSE "borrowInternalRight")
     ELSE IF l # NIL
     THEN (IF leaf THEN "mergeLeafLeft" ELSE "mergeInternalLeft")
     ELSE (IF leaf THEN "mergeLeafRight" ELSE "mergeInternalRight")

\* the rebalancing steps of a call's log, in the order they were taken
Rebalances(log) == SelectSeq(log, LAMBDA e : e.ev # "collapse")

\* C32: every rebalancing step of a delete, at the leaf and at each ancestor
\* it reaches, is the one action picked in the order: borrow from the left
\* sibling if there is one with more than t keys, else borrow from the right
\* sibling if there is one with more than t keys, else merge with the left
\* sibling if there is one, else merge with the right sibling.
RebalanceFollowsFixedOrder ==
  root # NIL =>
    \A k \in Keys :
      LET d == descend(heap, root, k, <<>>)
          p == Len(d.path)
          chain == [j \in 1..(p + 1) |-> IF j = 1 THEN d.leaf ELSE d.path[p - j + 2]]
          steps == Rebalances(Delete(Cur, order, k).log)
      IN /\ Len(steps) <= p
         /\ \A j \in 1..Len(steps) :
              steps[j].ev = PickedAction(chain[j + 1], chain[j])

\* a delete has just merged the leaf with a sibling and then borrowed for the
\* leaf's parent from a sibling of the parent
MergeThenBorrowWitness ==
  /\ last.op = "delete"
  /\ Len(Rebalances(last.log)) >= 2
  /\ Rebalances(last.log)[1].ev \in {"mergeLeafLeft", "mergeLeafRight"}
  /\ Rebalances(last.log)[2].ev \in {"borrowInternalLeft", "borrowInternalRight"}

\* the tree after the removal of key k from its leaf, before any rebalancing
AfterRemoval(k) ==
  LET leaf == descend(heap, root, k, <<>>).leaf
  IN WithHeap(Cur, [heap EXCEPT ![leaf] =
                      removeKV(heap[leaf], findEqualKeyIndexInNode(heap[leaf], k))])

\* the pairs of a leaf, in order
Pairs(n) == [i \in 1..Len(n.key) |-> <<n.key[i], n.value[i]>>]

\* the leaf borrow that the delete of k starts with, from the sibling on the
\* given side, does what is claimed
LeafBorrowMovesOnePair(k, fromLeft) ==
  LET d == descend(heap, root, k, <<>>)
      node == d.leaf
      parent == Last(d.path)
      idx == ChildPos(parent, node)
      sib == IF fromLeft THEN LeftOf(parent, node) ELSE RightOf(parent, node)
      s1 == AfterRemoval(k)
      b == borrowKeyFromLeafNode(s1, sib, node, fromLeft, parent, idx)
      lo == IF fromLeft THEN sib ELSE node
      hi == IF fromLeft THEN node ELSE sib
      sepIdx == IF fromLeft THEN idx - 1 ELSE idx
  IN /\ b.panic = ""
     /\ b.log[1] = Delete(Cur, order, k).log[1]
     /\ IF fromLeft
        THEN /\ Pairs(b.heap[node]) = <<Last(Pairs(s1.heap[sib]))>> \o Pairs(s1.heap[node])
             /\ Pairs(b.heap[sib]) = Front(Pairs(s1.heap[sib]))
        ELSE /\ Pairs(b.heap[node]) = Append(Pairs(s1.heap[node]), Pairs(s1.heap[sib])[1])
             /\ Pairs(b.heap[sib]) = Tail(Pairs(s1.heap[sib]))
     /\ Len(b.heap[node].value) = Len(b.heap[node].key)
     /\ Len(b.heap[sib].value) = Len(b.heap[sib].key)
     /\ Pairs(b.heap[lo]) \o Pairs(b.heap[hi]) = Pairs(s1.heap[lo]) \o Pairs(s1.heap[hi])
     /\ b.heap[parent].key[sepIdx] = b.heap[hi].key[1]
     /\ Len(b.heap[parent].key) = Len(s1.heap[parent].key)
     /\ \A i \in 1..Len(b.heap[parent].key) :
          i # sepIdx => b.heap[parent].key[i] = s1.heap[parent].key[i]
     /\ b.heap[parent].children = s1.heap[parent].children
     /\ \A f \in {"next", "prev", "children"} :
          b.heap[node][f] = s1.heap[node][f] /\ b.heap[sib][f] = s1.heap[sib][f]
     /\ b.root = s1.root /\ DOMAIN b.heap = DOMAIN s1.heap
     /\ \A m \in DOMAIN s1.heap \ {node, sib, parent} : b.heap[m] = s1.heap[m]

\* C33: a leaf borrow moves exactly one pair between the two sibling leaves
\* (the left sibling's last pair to the node's front, or the right sibling's
\* first pair to the node's back), keeps the pairs of the two leaves together
\* unchanged, writes the first key of the right-hand leaf of the two into the
\* parent separator between them, and changes neither the parent's key count
\* nor any other node.
LeafBorrowKeepsPairsAndSetsSeparator ==
  root # NIL =>
    \A k \in Keys :
      LET log == Delete(Cur, order, k).log
      IN Len(log) > 0 /\ log[1].ev \in LeafBorrows =>
           LeafBorrowMovesOnePair(k, log[1].ev = "borrowLeafLeft")

\* a delete has just borrowed a pair from the left sibling leaf, whose last key
\* is now the node's first key and the separator between the two
LeafBorrowFromLeftWitness ==
  /\ last.op = "delete"
  /\ Len(last.log) > 0 /\ last.log[1].ev = "borrowLeafLeft"
  /\ \E p \in Internals : \E i \in 1..Len(heap[p].key) :
       /\ heap[heap[p].children[i]].key = last.log[1].b
       /\ heap[heap[p].children[i + 1]].key = last.log[1].a
       /\ heap[p].key[i] = last.log[1].a[1]

\* the nodes a delete of k can rebalance, bottom up: the leaf, then the
\* recorded path from its end to the root
Chain(k) ==
  LET d == descend(heap, root, k, <<>>)
      p == Len(d.path)
  IN [j \in 1..(p + 1) |-> IF j = 1 THEN d.leaf ELSE d.path[p - j + 2]]

RECURSIVE Before(_, _)
\* the tree as the j-th rebalancing step of the delete of k finds it
Before(k, j) ==
  IF j = 1 THEN AfterRemoval(k)
  ELSE rebalance(Before(k, j - 1), order, Chain(k)[j - 1], Chain(k)[j])

\* the rebalancing steps of the delete of k
StepsOf(k) == Rebalances(Delete(Cur, order, k).log)

\* the j-th step of the delete of k, an internal borrow from the sibling on
\* the given side, rotates through the parent as claimed
InternalBorrowRotatesAt(k, j, fromLeft) ==
  LET s == Before(k, j)
      b == Before(k, j + 1)
      node == Chain(k)[j]
      parent == Chain(k)[j + 1]
      idx == ChildPos(parent, node)
      sib == IF fromLeft THEN LeftOf(parent, node) ELSE RightOf(parent, node)
      sepIdx == IF fromLeft THEN idx - 1 ELSE idx
      sep == s.heap[parent].key[sepIdx]
      lo == IF fromLeft THEN sib ELSE node
      hi == IF fromLeft THEN node ELSE sib
      across(h) == (h[lo].key \o <<h[parent].key[sepIdx]>>) \o h[hi].key
  IN /\ b.panic = "" /\ b.log[j] = StepsOf(k)[j]
     /\ s.heap[parent].children = heap[parent].children
     /\ IF fromLeft
        THEN /\ b.heap[node].key = <<sep>> \o s.heap[node].key
             /\ b.heap[node].children =
                  <<Last(s.heap[sib].children)>> \o s.heap[node].children
             /\ b.heap[sib].key = Front(s.heap[sib].key)
             /\ b.heap[sib].children = Front(s.heap[sib].children)
             /\ b.heap[parent].key[sepIdx] = Last(s.heap[sib].key)
        ELSE /\ b.heap[node].key = Append(s.heap[node].key, sep)
             /\ b.heap[node].children =
                  Append(s.heap[node].children, s.heap[sib].children[1])
             /\ b.heap[sib].key = Tail(s.heap[sib].key)
             /\ b.heap[sib].children = Tail(s.heap[sib].children)
             /\ b.heap[parent].key[sepIdx] = s.heap[sib].key[1]
     /\ \A i \in 1..Len(s.heap[parent].key) :
          i # sepIdx => b.heap[parent].key[i] = s.heap[parent].key[i]
     /\ b.heap[parent].children = s.heap[parent].children
     /\ \A m \in {node, sib, parent} :
          Len(b.heap[m].children) = Len(b.heap[m].key) + 1
     /\ b.heap[lo].children \o b.heap[hi].children =
          s.heap[lo].children \o s.heap[hi].children
     /\ across(b.heap) = across(s.heap)
     /\ StrictlyIncreasing(across(b.heap))

\* C34: an internal borrow rotates through the parent: the separator between
\* the node and the lending sibling moves down into the node, the sibling's
\* child next to the node moves to the node, and the sibling's key next to the
\* node moves up in the separator's place; afterwards node, sibling and parent
\* each have one child more than keys and the keys of the three stay in order.
InternalBorrowRotatesThroughParent ==
  root # NIL =>
    \A k \in Keys :
      \A j \in 1..Len(StepsOf(k)) :
        StepsOf(k)[j].ev \in {"borrowInternalLeft", "borrowInternalRight"} =>
          InternalBorrowRotatesAt(k, j, StepsOf(k)[j].ev = "borrowInternalLeft")

\* a delete has just borrowed for an internal node from its right sibling
InternalBorrowFromRightWitness ==
  /\ last.op = "delete"
  /\ \E j \in 1..Len(last.log) :
       /\ last.log[j].ev = "borrowInternalRight"
       /\ \E n \in Internals : heap[n].key = last.log[j].a

\* the j-th step of the delete of k, a merge, does what is claimed
MergeLeavesOneNodeAt(k, j) ==
  LET s == Before(k, j)
      b == Before(k, j + 1)
      node == Chain(k)[j]
      parent == Chain(k)[j + 1]
      idx == ChildPos(parent, node)
      withLeft == LeftOf(parent, node) # NIL
      sib == IF withLeft THEN LeftOf(parent, node) ELSE RightOf(parent, node)
      sepIdx == IF withLeft THEN idx - 1 ELSE idx
      sep == s.heap[parent].key[sepIdx]
      lo == IF withLeft THEN sib ELSE node
      hi == IF withLeft THEN node ELSE sib
      rest == RemoveAt(s.heap[parent].key, sepIdx)
      after == b.heap[parent]
  IN /\ b.panic = "" /\ b.log[j] = StepsOf(k)[j]
     /\ s.heap[parent].children = heap[parent].children
     /\ Len(after.key) = Len(s.heap[parent].key) - 1
     /\ after.children = RemoveAt(s.heap[parent].children, idx)
     /\ sib \in Range(after.children) /\ node \notin Range(after.children)
     /\ Len(after.children) = Len(after.key) + 1
     /\ IF IsLeaf(s.heap[node])
        THEN /\ IsLeaf(b.heap[sib])
             /\ Pairs(b.heap[sib]) = Pairs(s.heap[lo]) \o Pairs(s.heap[hi])
             /\ Len(b.heap[sib].value) = Len(b.heap[sib].key)
             /\ \A i \in 1..Len(after.key) :
                  after.key[i] \in {rest[i]} \cup Range(b.heap[after.children[i + 1]].key)
        ELSE /\ b.heap[sib].key = (s.heap[lo].key \o <<sep>>) \o s.heap[hi].key
             /\ b.heap[sib].children = s.heap[lo].children \o s.heap[hi].children
             /\ Len(b.heap[sib].children) = Len(b.heap[sib].key) + 1
             /\ after.key = rest
     /\ StrictlyIncreasing(b.heap[sib].key)

\* C35: a merge removes exactly one separator and one child link from the
\* parent and leaves one surviving node: of two leaves, the survivor holds the
\* pairs of both in key order and the separator is dropped; of two internal
\* nodes, the survivor holds the left keys, the separator pulled down and the
\* right keys, with the children of both in order.
MergeLeavesOneSurvivor ==
  root # NIL =>
    \A k \in Keys :
      \A j \in 1..Len(StepsOf(k)) :
        StepsOf(k)[j].ev \in {"mergeLeafLeft", "mergeLeafRight",
                              "mergeInternalLeft", "mergeInternalRight"} =>
          MergeLeavesOneNodeAt(k, j)

\* a delete has just merged two internal nodes around the separator pulled
\* down from their parent
InternalMergeWitness ==
  /\ last.op = "delete"
  /\ \E j \in 1..Len(last.log) :
       /\ last.log[j].ev \in {"mergeInternalLeft", "mergeInternalRight"}
       /\ \E n \in Internals :
            heap[n].key = last.log[j].a /\ last.log[j].sep \in Range(heap[n].key)

\* the j-th node of the chain holds at most t keys when its turn comes
HoldsAtMostT(k, j) == Len(Before(k, j).heap[Chain(k)[j]].key) <= order

\* C36: a delete rebalances the target leaf exactly when the leaf is not the
\* root and holds at most t keys after the removal; after each borrow or
\* merge at a node, its parent is rebalanced in turn exactly when the parent
\* is not the root and holds at most t keys, also after a borrow, which
\* leaves the parent's key count as it was.
CascadeContinuesWhileAtMostT ==
  root # NIL =>
    \A k \in Keys :
      IF ~Stored(k) THEN StepsOf(k) = <<>>
      ELSE \A j \in 1..Len(Chain(k)) :
             (j <= Len(StepsOf(k))) <=>
               (j < Len(Chain(k)) /\ \A i \in 1..j : HoldsAtMostT(k, i))

\* a delete has just borrowed for the leaf and then rebalanced the leaf's
\* parent, whose key count the borrow had not changed
BorrowThenCascadeWitness ==
  /\ last.op = "delete"
  /\ Len(Rebalances(last.log)) >= 2
  /\ Rebalances(last.log)[1].ev \in LeafBorrows

\* between heap h and heap g only node n differs, and only in its keys and
\* values
OnlyLeafPairsDiffer(h, g, n) ==
  /\ DOMAIN g = DOMAIN h
  /\ \A m \in DOMAIN h \ {n} : g[m] = h[m]
  /\ \A f \in {"children", "next", "prev"} : g[n][f] = h[n][f]

\* the insert of key k, not stored, into a leaf with fewer than 2t keys
\* changes only that leaf's pairs
SimpleInsertFrame(k) ==
  LET leaf == descend(heap, root, k, <<>>).leaf
      r == Insert(Cur, order, k, "v0")
  IN Len(heap[leaf].key) < 2 * order =>
       /\ r.panic = "" /\ r.err = ErrNil /\ r.log = <<>>
       /\ r.root = root
       /\ OnlyLeafPairsDiffer(heap, r.heap, leaf)
       /\ \E i \in 1..Len(r.heap[leaf].key) :
            /\ Pairs(r.heap[leaf])[i] = <<k, "v0">>
            /\ RemoveAt(Pairs(r.heap[leaf]), i) = Pairs(heap[leaf])

\* the delete of key k, stored, from a leaf with more than t+1 keys changes
\* only that leaf's pairs
SimpleDeleteFrame(k) ==
  LET leaf == descend(heap, root, k, <<>>).leaf
      r == Delete(Cur, order, k)
  IN Len(heap[leaf].key) - 1 > order =>
       /\ r.panic = "" /\ r.err = ErrNil /\ r.log = <<>>
       /\ r.root = root
       /\ OnlyLeafPairsDiffer(heap, r.heap, leaf)
       /\ \E i \in 1..Len(heap[leaf].key) :
            /\ heap[leaf].key[i] = k
            /\ Pairs(r.heap[leaf]) = RemoveAt(Pairs(heap[leaf]), i)

\* C37, as stated: an insert of a new key that leaves its leaf with at most
\* 2t keys, and a delete that leaves its leaf with more than t keys, change
\* only that leaf's keys and values: no separator, child link, sibling link,
\* other leaf or the root is modified.
SimpleInsertAndDeleteTouchOneLeaf ==
  \A k \in Keys :
    /\ ~Stored(k) =>
         IF root = NIL THEN Insert(Cur, order, k, "v0").root = root
         ELSE SimpleInsertFrame(k)
    /\ Stored(k) => SimpleDeleteFrame(k)

\* C37, amended: the same for a tree that has a root; the insert into a tree
\* without root installs a new leaf root holding the one pair.
SimpleInsertAndDeleteTouchOneLeafUnderRoot ==
  \A k \in Keys :
    /\ ~Stored(k) =>
         IF root = NIL
         THEN LET r == Insert(Cur, order, k, "v0")
              IN /\ r.panic = "" /\ r.err = ErrNil /\ r.log = <<>>
                 /\ r.root # NIL /\ DOMAIN r.heap = {r.root}
                 /\ IsLeaf(r.heap[r.root])
                 /\ Pairs(r.heap[r.root]) = << <<k, "v0">> >>
         ELSE SimpleInsertFrame(k)
    /\ Stored(k) => SimpleDeleteFrame(k)

\* an insert of a new key below an internal root has just ended without any
\* split
SimpleInsertWitness ==
  /\ last.op = "insert" /\ last.err = ErrNil /\ last.log = <<>>
  /\ root # NIL /\ ~IsLeaf(heap[root])

\* C38: in a tree built with order >= 1 no structural assertion fails in any
\* sequence of insert, get, delete and seek calls: no call has crashed on an
\* assertion or otherwise, and from every state reached each of the four
\* calls, for every key, ends without a crash.
NoAssertionFails ==
  /\ order >= 1
  /\ panic = ""
  /\ \A k \in Keys :
       /\ Insert(Cur, order, k, "v0").panic = ""
       /\ Get(Cur, k).panic = ""
       /\ Delete(Cur, order, k).panic = ""
       /\ Seek(Cur, k).panic = ""

\* a delete has just passed the assertions of a leaf merge, an internal merge
\* and a root collapse
AssertionsPassedWitness ==
  /\ last.op = "delete" /\ panic = ""
  /\ \E e \in {"mergeLeafLeft", "mergeLeafRight"} : Logged(last.log, e)
  /\ \E e \in {"mergeInternalLeft", "mergeInternalRight"} : Logged(last.log, e)
  /\ Logged(last.log, "collapse")

\* C39: the iteration idiom is free of faults in every tree state: no cursor
\* call has crashed, and the cursor handed out by seek_first, seek_last or a
\* successful seek can be passed to valid, next, prev, key and value, also on
\* a tree without root.
IterationIdiomNeverCrashes ==
  /\ panic = ""
  /\ it # NoIterator => Dereferences(it)
  /\ Dereferences(SeekFirst(Cur)) /\ Dereferences(SeekLast(Cur))

\* the freshly constructed tree
Fresh == [root |-> NIL, heap |-> <<>>, panic |-> "", log |-> <<>>]

\* what a caller sees of a cursor: null, invalid, or the pair it stands on
Seen(h, i) ==
  IF ~Dereferences(i) THEN <<"null">>
  ELSE IF ~Valid(h, i) THEN <<"invalid">>
  ELSE <<"valid", Key(h, i), Value(h, i)>>

\* what a caller sees of one call on tree s: its error, its value, its cursor
SeenOfGet(s, k) == LET r == Get(s, k) IN <<r.err, r.val, r.panic>>

SeenOfDelete(s, k) == LET r == Delete(s, order, k) IN <<r.err, r.panic>>

SeenOfSeek(s, k) ==
  LET r == Seek(s, k)
  IN <<r.err, r.panic, IF r.err = ErrNil THEN Seen(s.heap, r.it) ELSE <<"none">> >>

SeenOfSeekFirst(s) == Seen(s.heap, SeekFirst(s))

SeenOfSeekLast(s) == Seen(s.heap, SeekLast(s))

\* every key has been deleted from a tree that held some
Emptied == root # NIL /\ StoredKeys = {}

\* C40: a tree from which every key has been deleted answers as a fresh tree
\* of the same order does: get, delete, seek, seek_first and seek_last return
\* the same values, errors and null or invalid cursors on both, also after a
\* further insert.
EmptiedTreeAnswersAsFresh ==
  Emptied =>
    /\ SeenOfSeekFirst(Cur) = SeenOfSeekFirst(Fresh)
    /\ SeenOfSeekLast(Cur) = SeenOfSeekLast(Fresh)
    /\ \A k \in Keys :
         /\ SeenOfGet(Cur, k) = SeenOfGet(Fresh, k)
         /\ SeenOfDelete(Cur, k) = SeenOfDelete(Fresh, k)
         /\ SeenOfSeek(Cur, k) = SeenOfSeek(Fresh, k)
         /\ \A j \in Keys :
              LET a == Insert(Cur, order, j, "v0")
                  b == Insert(Fresh, order, j, "v0")
              IN /\ a.err = b.err /\ a.panic = b.panic
                 /\ SeenOfGet(a, k) = SeenOfGet(b, k)
                 /\ SeenOfSeek(a, k) = SeenOfSeek(b, k)
                 /\ SeenOfSeekFirst(a) = SeenOfSeekFirst(b)
                 /\ SeenOfSeekLast(a) = SeenOfSeekLast(b)

====
